---- MODULE Spec2Model ----
(***************************************************************************)
(* Model of harmonic_inference/models/joint_model.py: the State objects,   *)
(* the Beam and HashedBeam containers, and HarmonicInferenceModel's        *)
(* __init__, get_chord_ranges and beam_search.                             *)
(*                                                                         *)
(* Python indexes are kept 0-based wherever the code computes with them    *)
(* (heap positions, frame indexes); TLA+ sequences are 1-based, so         *)
(* heap[pos + 1] is Python's heap[pos].  State objects live in the pool    *)
(* `states`; an object's identity is its index in the pool.                *)
(***************************************************************************)
EXTENDS Integers, Sequences, FiniteSets, TLC

VARIABLES
    states,        \* pool of State objects (records), index = object identity
    beam,          \* the Beam / HashedBeam object under test
    beam_class,    \* "Beam" or "HashedBeam"
    pending,       \* the State object the caller holds and has not yet added (0: none)
    op             \* the last call made on the beam and what it returned

beamVars == <<states, beam, beam_class, pending, op>>

VARIABLES
    pc,                 \* position inside get_chord_ranges
    onsets,             \* piece.get_inputs()[i].onset, i in 0..n-1
    duration_cache,     \* piece.get_duration_cache()
    change_probs,       \* the change_probs array (modified in place)
    min_change_prob,
    max_no_change_prob,
    max_chord_length,
    invalid,
    starts,
    in_starts,
    start,
    index,
    running_log_prob,
    running_duration,
    reached_end,
    chord_ranges,
    chord_log_probs

rangeVars == <<pc, onsets, duration_cache, change_probs, min_change_prob,
               max_no_change_prob, max_chord_length, invalid, starts, in_starts,
               start, index, running_log_prob, running_duration, reached_end,
               chord_ranges, chord_log_probs>>

VARIABLES
    model,                  \* the HarmonicInferenceModel object and how its construction ended
    chord_classifications,  \* beam_search's argument: log-prior of every chord, per range
    chord_ranges_dict,      \* beam_search's dict: start -> list of range data
    all_states,             \* beam_search's list of beams, one per frame index 0..n
    current_start,          \* the index of the beam being expanded
    pairs,                  \* what is left of itertools.product(current_states, ranges)
    first_call              \* what the caller of get_chord_ranges passed and got back first

searchVars == <<model, chord_classifications, chord_ranges_dict, all_states,
                current_start, pairs>>

vars == <<beamVars, rangeVars, searchVars, first_call>>

----------------------------------------------------------------------------
(* Bounds of the model *)

MaxAdds == 4
MaxBeamSize == 2
MaxFrames == 4
MaxChordLength == 3

\* log-probabilities offered to a beam (floats in the code; only their order matters)
LogProbs == {-2, -1, 0}
\* chord labels (one-hot indexes)
Chords == {0, 1, 2}

----------------------------------------------------------------------------
(* heapq (the binary min-heap of the Python standard library, used by       *)
(* Beam, HashedBeam and get_chord_ranges).  `key` maps an item to the value *)
(* its __lt__ compares.                                                     *)

heap_lt(key, a, b) == key[a] < key[b]

RECURSIVE siftdown_loop(_, _, _, _, _)
siftdown_loop(key, heap, startpos, pos, newitem) ==
    IF pos > startpos
    THEN LET parentpos == (pos - 1) \div 2
             parent == heap[parentpos + 1]
         IN  IF heap_lt(key, newitem, parent)
             THEN siftdown_loop(key, [heap EXCEPT ![pos + 1] = parent],
                                startpos, parentpos, newitem)
             ELSE [heap EXCEPT ![pos + 1] = newitem]
    ELSE [heap EXCEPT ![pos + 1] = newitem]

siftdown(key, heap, startpos, pos) ==
    siftdown_loop(key, heap, startpos, pos, heap[pos + 1])

RECURSIVE siftup_loop(_, _, _, _, _)
siftup_loop(key, heap, pos, childpos, newitem) ==
    IF childpos < Len(heap)
    THEN LET rightpos == childpos + 1
             c == IF rightpos < Len(heap)
                     /\ ~heap_lt(key, heap[childpos + 1], heap[rightpos + 1])
                  THEN rightpos ELSE childpos
         IN  siftup_loop(key, [heap EXCEPT ![pos + 1] = heap[c + 1]],
                         c, 2 * c + 1, newitem)
    ELSE [heap |-> [heap EXCEPT ![pos + 1] = newitem], pos |-> pos]

siftup(key, heap, pos) ==
    LET r == siftup_loop(key, heap, pos, 2 * pos + 1, heap[pos + 1])
    IN  siftdown(key, r.heap, pos, r.pos)

heappush(key, heap, item) ==
    siftdown(key, Append(heap, item), 0, Len(heap))

\* returns the new heap and the popped item; the caller guarantees heap # <<>>
heappop(key, heap) ==
    LET lastelt == heap[Len(heap)]
        rest == SubSeq(heap, 1, Len(heap) - 1)
    IN  IF rest # <<>>
        THEN [heap |-> siftup(key, [rest EXCEPT ![1] = lastelt], 0), item |-> rest[1]]
        ELSE [heap |-> rest, item |-> lastelt]

heappushpop(key, heap, item) ==
    IF heap # <<>> /\ heap_lt(key, heap[1], item)
    THEN [heap |-> siftup(key, [heap EXCEPT ![1] = item], 0), item |-> heap[1]]
    ELSE [heap |-> heap, item |-> item]

----------------------------------------------------------------------------
(* class State *)

\* None for an int-valued attribute (chord, prev_state)
None == -1
\* None as an entry of a hash_tuple, whose other entries are <<key, chord>>
NoneEntry == <<>>

RECURSIVE Nones(_)
Nones(k) == IF k <= 0 THEN <<>> ELSE <<NoneEntry>> \o Nones(k - 1)

Tail1(t) == IF t = <<>> THEN <<>> ELSE Tail(t)

\* mutant of State: the hash_tuple keeps exactly hash_length entries
State_exact_length(st, chord, key, change_index, log_prob, prev_state, hash_length) ==
    [valid |-> TRUE,
     chord |-> chord,
     key |-> key,
     change_index |-> change_index,
     log_prob |-> log_prob,
     prev_state |-> prev_state,
     has_hash_tuple |-> hash_length # None,
     hash_tuple |->
        IF hash_length # None
        THEN IF prev_state = None
             THEN Nones(hash_length)
             ELSE LET t == st[prev_state].hash_tuple \o <<(<<key, chord>>)>>
                  IN  SubSeq(t, Len(t) - hash_length + 1, Len(t))
        ELSE <<>>]

\* mutant of State: the parent's last entry is dropped instead of its first
State_drops_last(st, chord, key, change_index, log_prob, prev_state, hash_length) ==
    [valid |-> TRUE,
     chord |-> chord,
     key |-> key,
     change_index |-> change_index,
     log_prob |-> log_prob,
     prev_state |-> prev_state,
     has_hash_tuple |-> hash_length # None,
     hash_tuple |->
        IF hash_length # None
        THEN IF prev_state = None
             THEN Nones(hash_length)
             ELSE LET t == st[prev_state].hash_tuple
                  IN  SubSeq(t, 1, Len(t) - 1) \o <<(<<key, chord>>)>>
        ELSE <<>>]

\* State.__init__; hash_length = None leaves the object without a hash_tuple
State(st, chord, key, change_index, log_prob, prev_state, hash_length) ==
    [valid |-> TRUE,
     chord |-> chord,
     key |-> key,
     change_index |-> change_index,
     log_prob |-> log_prob,
     prev_state |-> prev_state,
     has_hash_tuple |-> hash_length # None,
     hash_tuple |->
        IF hash_length # None
        THEN IF prev_state = None
             THEN Nones(hash_length)
             ELSE Tail1(st[prev_state].hash_tuple) \o <<(<<key, chord>>)>>
        ELSE <<>>]

\* mutant of chord_transition: the new state keeps its parent's change_index
chord_transition_keeps_index(st, self, chord, change_index, log_prob) ==
    State(st, chord, st[self].key, st[self].change_index, st[self].log_prob + log_prob,
          self, IF st[self].has_hash_tuple THEN Len(st[self].hash_tuple) ELSE None)

chord_transition(st, self, chord, change_index, log_prob) ==
    State(st, chord, st[self].key, change_index, st[self].log_prob + log_prob, self,
          IF st[self].has_hash_tuple THEN Len(st[self].hash_tuple) ELSE None)

\* State.can_key_transition
can_key_transition(st, self) ==
    /\ st[self].prev_state # None
    /\ st[st[self].prev_state].prev_state # None

\* State.key_transition: the new object, or the exception raised while the
\* arguments of State(...) are evaluated (self.prev_state.log_prob when prev_state
\* is None, len(self.hash_tuple) when the object has no hash_tuple)
key_transition(st, self, key, log_prob) ==
    IF st[self].prev_state = None \/ ~st[self].has_hash_tuple
    THEN [ret |-> None, raised |-> "AttributeError"]
    ELSE [ret |-> State(st, st[self].chord, key, st[self].change_index,
                        st[st[self].prev_state].log_prob + log_prob,
                        st[self].prev_state, Len(st[self].hash_tuple)),
          raised |-> ""]

\* mutant of get_hash: the object's id is always used as its hash
get_hash_always_id(st, self) == <<self>>

get_hash(st, self) ==
    IF st[self].has_hash_tuple THEN st[self].hash_tuple ELSE <<self>>

\* State.__lt__
State_lt(st, self, other) == st[self].log_prob < st[other].log_prob

\* what heapq compares when the heap holds State objects
log_prob_key(st) == [i \in DOMAIN st |-> st[i].log_prob]

----------------------------------------------------------------------------
(* dict: insertion-ordered sequence of <<key, value>> pairs *)

dict_has(d, k) == \E i \in DOMAIN d : d[i][1] = k

dict_get(d, k) == d[CHOOSE i \in DOMAIN d : d[i][1] = k][2]

dict_set(d, k, v) ==
    IF dict_has(d, k)
    THEN [i \in DOMAIN d |-> IF d[i][1] = k THEN <<k, v>> ELSE d[i]]
    ELSE Append(d, <<k, v>>)

dict_del(d, k) == SelectSeq(d, LAMBDA e : e[1] # k)

dict_values(d) == [i \in DOMAIN d |-> d[i][2]]

----------------------------------------------------------------------------
(* class Beam.  A beam object is the record                                 *)
(*   [beam_size, beam (the heap list), state_dict (HashedBeam only)].       *)
(* A call returns the pool and the object after the call, the returned      *)
(* value and the exception it raised ("" when it returned normally).        *)

Outcome(st, b, ret, raised) == [st |-> st, b |-> b, ret |-> ret, raised |-> raised]

Beam_init(beam_size) == [beam_size |-> beam_size, beam |-> <<>>, state_dict |-> <<>>]

Beam_len(b) == Len(b.beam)

Beam_iter(b) == b.beam

\* self.beam[0] < state, an IndexError on an empty list
Beam_fits_in_beam(st, b, state) ==
    IF Beam_len(b) < b.beam_size THEN Outcome(st, b, TRUE, "")
    ELSE IF b.beam = <<>> THEN Outcome(st, b, FALSE, "IndexError")
    ELSE Outcome(st, b, State_lt(st, b.beam[1], state), "")

\* mutant of Beam_add: a full beam pushes the better state without popping
Beam_add_no_pop(st, b, state) ==
    IF Beam_len(b) = b.beam_size /\ ~State_lt(st, b.beam[1], state)
    THEN Outcome(st, b, FALSE, "")
    ELSE Outcome(st, [b EXCEPT !.beam = heappush(log_prob_key(st), b.beam, state)],
                 TRUE, "")

Beam_add(st, b, state) ==
    IF Beam_len(b) = b.beam_size
    THEN IF b.beam = <<>> THEN Outcome(st, b, FALSE, "IndexError")
         ELSE IF State_lt(st, b.beam[1], state)
         THEN Outcome(st,
                      [b EXCEPT !.beam = heappushpop(log_prob_key(st), b.beam, state).heap],
                      TRUE, "")
         ELSE Outcome(st, b, FALSE, "")
    ELSE Outcome(st, [b EXCEPT !.beam = heappush(log_prob_key(st), b.beam, state)],
                 TRUE, "")

\* max(iterable): the first of the maximal items; ValueError on an empty one
RECURSIVE max_loop(_, _, _, _)
max_loop(st, items, i, best) ==
    IF i > Len(items) THEN best
    ELSE max_loop(st, items, i + 1,
                  IF State_lt(st, best, items[i]) THEN items[i] ELSE best)

\* mutant of py_max: the head of the iteration (the heap's top) is returned
py_max_first(st, items) ==
    IF items = <<>> THEN [ret |-> 0, raised |-> "ValueError"]
    ELSE [ret |-> items[1], raised |-> ""]

py_max(st, items) ==
    IF items = <<>> THEN [ret |-> 0, raised |-> "ValueError"]
    ELSE [ret |-> max_loop(st, items, 2, items[1]), raised |-> ""]

Beam_get_top_state(st, b) == py_max(st, Beam_iter(b))

----------------------------------------------------------------------------
(* class HashedBeam(Beam) *)

HashedBeam_len(b) == Len(b.state_dict)

HashedBeam_iter(b) == dict_values(b.state_dict)

\* mutant of HashedBeam_fits_in_beam: the inherited test, without the hash test
HashedBeam_fits_in_beam_no_hash(st, b, state) == Beam_fits_in_beam(st, b, state)

HashedBeam_fits_in_beam(st, b, state) ==
    LET state_hash == get_hash(st, state)
    IN  IF HashedBeam_len(b) >= b.beam_size /\ b.beam = <<>>
        THEN Outcome(st, b, FALSE, "IndexError")
        ELSE Outcome(st, b,
                 (HashedBeam_len(b) < b.beam_size \/ State_lt(st, b.beam[1], state))
                 /\ (~dict_has(b.state_dict, state_hash)
                     \/ State_lt(st, dict_get(b.state_dict, state_hash), state)),
                 "")

\* mutant of fix_beam_min: nothing is popped
fix_beam_min_skip(st, heap) == [beam |-> heap, raised |-> ""]

\* while not self.beam[0].valid: heapq.heappop(self.beam)
RECURSIVE fix_beam_min(_, _)
fix_beam_min(st, heap) ==
    IF heap = <<>> THEN [beam |-> heap, raised |-> "IndexError"]
    ELSE IF ~st[heap[1]].valid
    THEN fix_beam_min(st, heappop(log_prob_key(st), heap).heap)
    ELSE [beam |-> heap, raised |-> ""]

\* mutant of HashedBeam_add_same_hash: the replaced state is not marked invalid
HashedBeam_add_same_hash_keeps_valid(st, b, state, state_hash) ==
    LET old == dict_get(b.state_dict, state_hash)
    IN  IF State_lt(st, old, state)
        THEN LET d1 == dict_set(b.state_dict, state_hash, state)
                 h1 == heappush(log_prob_key(st), b.beam, state)
                 fixed == fix_beam_min(st, h1)
             IN  Outcome(st, [b EXCEPT !.beam = fixed.beam, !.state_dict = d1],
                         fixed.raised = "", fixed.raised)
        ELSE Outcome(st, b, FALSE, "")

\* mutant of HashedBeam_add_same_hash: a state of a hash already held is refused
HashedBeam_add_same_hash_never(st, b, state, state_hash) == Outcome(st, b, FALSE, "")

\* lines 392-399: the hash is already in state_dict
HashedBeam_add_same_hash(st, b, state, state_hash) ==
    LET old == dict_get(b.state_dict, state_hash)
    IN  IF State_lt(st, old, state)
        THEN LET st1 == [st EXCEPT ![old].valid = FALSE]
                 d1 == dict_set(b.state_dict, state_hash, state)
                 h1 == heappush(log_prob_key(st1), b.beam, state)
                 fixed == fix_beam_min(st1, h1)
             IN  Outcome(st1, [b EXCEPT !.beam = fixed.beam, !.state_dict = d1],
                         fixed.raised = "", fixed.raised)
        ELSE Outcome(st, b, FALSE, "")

\* mutant of HashedBeam_add_full: the popped state's entry stays in state_dict
HashedBeam_add_full_keeps_entry(st, b, state, state_hash) ==
    IF b.beam = <<>> THEN Outcome(st, b, FALSE, "IndexError")
    ELSE IF State_lt(st, b.beam[1], state)
    THEN LET pp == heappushpop(log_prob_key(st), b.beam, state)
             d1 == dict_set(b.state_dict, state_hash, state)
             fixed == fix_beam_min(st, pp.heap)
         IN  Outcome(st, [b EXCEPT !.beam = fixed.beam, !.state_dict = d1],
                     fixed.raised = "", fixed.raised)
    ELSE Outcome(st, b, FALSE, "")

\* lines 402-409: a new hash, and the beam is full
HashedBeam_add_full(st, b, state, state_hash) ==
    IF b.beam = <<>> THEN Outcome(st, b, FALSE, "IndexError")
    ELSE IF State_lt(st, b.beam[1], state)
    THEN LET pp == heappushpop(log_prob_key(st), b.beam, state)
             removed_state == pp.item
             d1 == dict_set(b.state_dict, state_hash, state)
             removed_hash == get_hash(st, removed_state)
         IN  IF ~dict_has(d1, removed_hash)
             THEN Outcome(st, [b EXCEPT !.beam = pp.heap, !.state_dict = d1],
                          FALSE, "KeyError")
             ELSE LET d2 == dict_del(d1, removed_hash)
                      fixed == fix_beam_min(st, pp.heap)
                  IN  Outcome(st, [b EXCEPT !.beam = fixed.beam, !.state_dict = d2],
                              fixed.raised = "", fixed.raised)
    ELSE Outcome(st, b, FALSE, "")

\* mutant of HashedBeam_add_not_full: the state is entered in state_dict only
HashedBeam_add_not_full_no_push(st, b, state, state_hash) ==
    Outcome(st, [b EXCEPT !.state_dict = dict_set(b.state_dict, state_hash, state)],
            TRUE, "")

\* lines 411-415: a new hash, and the beam is not yet full
HashedBeam_add_not_full(st, b, state, state_hash) ==
    Outcome(st,
            [b EXCEPT !.beam = heappush(log_prob_key(st), b.beam, state),
                      !.state_dict = dict_set(b.state_dict, state_hash, state)],
            TRUE, "")

HashedBeam_add(st, b, state) ==
    LET state_hash == get_hash(st, state)
    IN  IF dict_has(b.state_dict, state_hash)
        THEN HashedBeam_add_same_hash(st, b, state, state_hash)
        ELSE IF HashedBeam_len(b) = b.beam_size
        THEN HashedBeam_add_full(st, b, state, state_hash)
        ELSE HashedBeam_add_not_full(st, b, state, state_hash)

HashedBeam_get_top_state(st, b) == py_max(st, HashedBeam_iter(b))

----------------------------------------------------------------------------
(* method dispatch on the class of the beam object *)

len(cls, b) == IF cls = "HashedBeam" THEN HashedBeam_len(b) ELSE Beam_len(b)

iter(cls, b) == IF cls = "HashedBeam" THEN HashedBeam_iter(b) ELSE Beam_iter(b)

fits_in_beam(cls, st, b, state) ==
    IF cls = "HashedBeam" THEN HashedBeam_fits_in_beam(st, b, state)
    ELSE Beam_fits_in_beam(st, b, state)

add(cls, st, b, state) ==
    IF cls = "HashedBeam" THEN HashedBeam_add(st, b, state) ELSE Beam_add(st, b, state)

get_top_state(cls, st, b) ==
    IF cls = "HashedBeam" THEN HashedBeam_get_top_state(st, b)
    ELSE Beam_get_top_state(st, b)

----------------------------------------------------------------------------
(* A client of one beam object: it creates State objects and calls          *)
(* fits_in_beam, add and get_top_state on the beam, as beam_search does      *)
(* (lines 786-788, 821-830, 834).                                           *)

HashLength == 1

Call(name, state, ret, raised) ==
    [name |-> name, state |-> state, ret |-> ret, raised |-> raised]

\* the objects of the pool that were offered to the beam (all but the root and
\* the pending one)
Offered == {s \in DOMAIN states : s # 1 /\ s # pending}

searchIdle ==
    /\ model = <<>>
    /\ chord_classifications = <<>>
    /\ chord_ranges_dict = <<>>
    /\ all_states = <<>>
    /\ current_start = 0
    /\ pairs = <<>>

rangeIdle ==
    /\ pc = "idle"
    /\ onsets = <<>>
    /\ duration_cache = <<>>
    /\ change_probs = <<>>
    /\ min_change_prob = 0
    /\ max_no_change_prob = 0
    /\ max_chord_length = 0
    /\ invalid = <<>>
    /\ starts = <<>>
    /\ in_starts = <<>>
    /\ start = 0
    /\ index = 0
    /\ running_log_prob = <<>>
    /\ running_duration = 0
    /\ reached_end = FALSE
    /\ chord_ranges = <<>>
    /\ chord_log_probs = <<>>

\* beam_class(self.beam_size), and the root State(key=0, hash_length=self.hash_length)
InitBeam ==
    /\ beam_class \in {"Beam", "HashedBeam"}
    /\ \E beam_size \in 1..MaxBeamSize : beam = Beam_init(beam_size)
    /\ states = << State(<<>>, None, 0, 0, 0, None,
                         IF beam_class = "HashedBeam" THEN HashLength ELSE None) >>
    /\ pending = 0
    /\ op = Call("init", 0, FALSE, "")
    /\ rangeIdle
    /\ searchIdle
    /\ first_call = <<>>

\* new_state = state.chord_transition(chord_id, range_end, log_prob)
NewState ==
    /\ pending = 0
    /\ Len(states) <= MaxAdds
    /\ \E chord \in Chords, log_prob \in LogProbs :
          states' = Append(states, chord_transition(states, 1, chord, 1, log_prob))
    /\ pending' = Len(states) + 1
    /\ op' = Call("State", Len(states) + 1, FALSE, "")
    /\ UNCHANGED <<beam, beam_class>>

\* next_beam.fits_in_beam(new_state)
FitsInBeam ==
    /\ pending # 0
    /\ LET r == fits_in_beam(beam_class, states, beam, pending)
       IN  /\ states' = r.st
           /\ beam' = r.b
           /\ op' = Call("fits_in_beam", pending, r.ret, r.raised)
    /\ UNCHANGED <<beam_class, pending>>

\* next_beam.add(new_state)
Add ==
    /\ pending # 0
    /\ LET r == add(beam_class, states, beam, pending)
       IN  /\ states' = r.st
           /\ beam' = r.b
           /\ op' = Call("add", pending, r.ret, r.raised)
    /\ pending' = 0
    /\ UNCHANGED beam_class

\* all_states[-1].get_top_state()
GetTopState ==
    /\ pending = 0
    /\ LET r == get_top_state(beam_class, states, beam)
       IN  op' = Call("get_top_state", r.ret, FALSE, r.raised)
    /\ UNCHANGED <<states, beam, beam_class, pending>>

NextBeam ==
    \/ NewState /\ UNCHANGED <<rangeVars, searchVars, first_call>>
    \/ FitsInBeam /\ UNCHANGED <<rangeVars, searchVars, first_call>>
    \/ Add /\ UNCHANGED <<rangeVars, searchVars, first_call>>
    \/ GetTopState /\ UNCHANGED <<rangeVars, searchVars, first_call>>

SpecBeam == InitBeam /\ [][NextBeam]_vars

----------------------------------------------------------------------------
(* Properties of Beam and HashedBeam, checked under SpecBeam *)

\* the entries of the heap list
HeapEntries == {beam.beam[i] : i \in DOMAIN beam.beam}

\* the members: what iterating the beam yields
Members == {iter(beam_class, beam)[i] : i \in DOMAIN iter(beam_class, beam)}

\* offered states that are not members (rejected, evicted or replaced)
NonMembers == Offered \ Members

\* C1: after any sequence of add calls on a Beam or a HashedBeam of capacity
\* beam_size >= 1, the number of members (len of the heap for Beam, len of the
\* signature map for HashedBeam) never exceeds beam_size.
C1_SizeAtMostBeamSize ==
    /\ beam.beam_size >= 1
    /\ len(beam_class, beam) <= beam.beam_size
    /\ (beam_class = "Beam" => Len(beam.beam) <= beam.beam_size)
    /\ (beam_class = "HashedBeam" => Len(beam.state_dict) <= beam.beam_size)

\* a full beam to which more states were offered than it can hold, after an add
\* that evicted a member
C1_Witness ==
    /\ op.name = "add" /\ op.ret
    /\ len(beam_class, beam) = beam.beam_size
    /\ Cardinality(Offered) > beam.beam_size
    /\ \E s \in NonMembers : states[s].valid

\* C2: after any sequence of add calls on a HashedBeam, no two valid members
\* (states reachable by iterating the beam) have the same signature (hash_tuple).
C2_UniqueSignatures ==
    beam_class = "HashedBeam" =>
        \A i, j \in DOMAIN beam.state_dict :
            i # j => states[beam.state_dict[i][2]].hash_tuple
                     # states[beam.state_dict[j][2]].hash_tuple

\* two members, and an offered state sharing a member's signature was kept out
C2_Witness ==
    /\ beam_class = "HashedBeam"
    /\ op.name = "add"
    /\ Cardinality(Members) >= 2
    /\ \E s \in NonMembers, m \in Members :
          states[s].hash_tuple = states[m].hash_tuple

\* C3: in a HashedBeam in any reachable state (full or not), adding a state s
\* whose signature is already held by a member m with m.log_prob < s.log_prob
\* returns True, makes s a member, makes m no longer a member (m.valid becomes
\* False), and leaves the logical size unchanged.
C3_BetterSameSignatureReplaces ==
    [][ (/\ beam_class = "HashedBeam"
         /\ pending # 0
         /\ op'.name = "add" /\ op'.state = pending)
        => \A m \in Members :
              (/\ states[m].hash_tuple = states[pending].hash_tuple
               /\ states[m].log_prob < states[pending].log_prob)
              => /\ op'.ret = TRUE /\ op'.raised = ""
                 /\ pending \in Members'
                 /\ m \notin Members'
                 /\ states'[m].valid = FALSE
                 /\ states'[pending].valid = TRUE
                 /\ HashedBeam_len(beam') = HashedBeam_len(beam) ]_vars

\* a full HashedBeam of two members just after a member was replaced by a better
\* state of its signature
C3_Witness ==
    /\ beam_class = "HashedBeam"
    /\ op.name = "add" /\ op.ret
    /\ beam.beam_size >= 2
    /\ HashedBeam_len(beam) = beam.beam_size
    /\ op.state \in Members
    /\ \E m \in NonMembers :
          /\ ~states[m].valid
          /\ states[m].hash_tuple = states[op.state].hash_tuple
          /\ states[m].log_prob < states[op.state].log_prob
          /\ \A x \in NonMembers :
                states[x].hash_tuple = states[m].hash_tuple => x <= m

\* C4: after every completed add call on a HashedBeam, if the underlying heap is
\* non-empty then its minimum element beam[0] is a valid state; invalidated
\* entries may remain only below the top.
C4_HeapMinIsValid ==
    (beam_class = "HashedBeam" /\ beam.beam # <<>>) => states[beam.beam[1]].valid

\* an invalidated entry is still in the heap below the top, and another
\* invalidated state has been popped off the heap
C4_Witness ==
    /\ beam_class = "HashedBeam"
    /\ op.name = "add"
    /\ \E i \in DOMAIN beam.beam : i > 1 /\ ~states[beam.beam[i]].valid
    /\ \E s \in Offered : ~states[s].valid /\ s \notin HeapEntries

\* C5: for a non-empty Beam or HashedBeam reached by any sequence of add calls,
\* get_top_state returns a current member whose log_prob is the maximum over all
\* current members (the heap entries that were not invalidated); for a HashedBeam
\* it never returns an invalidated state.
C5_TopStateIsBestMember ==
    op.name = "get_top_state" =>
        LET current == {s \in HeapEntries : states[s].valid}
        IN  /\ (op.raised = "") = (current # {})
            /\ current # {} =>
                  /\ op.state \in current
                  /\ op.state \in Members
                  /\ states[op.state].valid
                  /\ \A m \in current \cup Members :
                        states[m].log_prob <= states[op.state].log_prob

\* get_top_state on a HashedBeam of two members whose heap still holds an
\* invalidated entry
C5_Witness ==
    /\ op.name = "get_top_state" /\ op.raised = ""
    /\ beam_class = "HashedBeam"
    /\ Cardinality(Members) >= 2
    /\ \E s \in HeapEntries : ~states[s].valid
    /\ \E m \in Members : states[m].log_prob < states[op.state].log_prob

\* C6: for every Beam and HashedBeam state reachable by add calls and every
\* candidate state s, fits_in_beam(s) leaves the beam unchanged and returns True
\* exactly when an immediately following add(s) returns True.
C6_FitsInBeamPredictsAdd ==
    [][ /\ (op'.name = "fits_in_beam" /\ pending # 0)
            => (beam' = beam /\ states' = states /\ op'.raised = "")
        /\ (op.name = "fits_in_beam" /\ op'.name = "add" /\ pending # 0)
            => (op'.state = op.state /\ op'.ret = op.ret /\ op'.raised = "") ]_vars

\* a state of a signature already in a HashedBeam that is not full was refused
C6_Witness ==
    /\ op.name = "add" /\ ~op.ret
    /\ beam_class = "HashedBeam"
    /\ HashedBeam_len(beam) < beam.beam_size
    /\ \E m \in Members : states[m].hash_tuple = states[op.state].hash_tuple

\* the members of lowest log_prob
Worst == {m \in Members : \A x \in Members : states[m].log_prob <= states[x].log_prob}

\* C23: in a HashedBeam at capacity (logical size = beam_size), adding a state s
\* whose signature is held by no member evicts exactly one valid member of lowest
\* log_prob and removes that member's signature entry if s.log_prob is strictly
\* greater than the lowest log_prob, and otherwise rejects s and leaves the beam
\* unchanged; a state tying the worst member is rejected.
C23_FullBeamNewSignature ==
    [][ (/\ beam_class = "HashedBeam"
         /\ pending # 0
         /\ op'.name = "add" /\ op'.state = pending
         /\ HashedBeam_len(beam) = beam.beam_size
         /\ \A m \in Members : states[m].hash_tuple # states[pending].hash_tuple)
        => IF \E m \in Members : states[m].log_prob < states[pending].log_prob
           THEN /\ op'.ret = TRUE /\ op'.raised = ""
                /\ \E m \in Worst :
                      /\ states[m].valid
                      /\ Members' = (Members \ {m}) \cup {pending}
                      /\ m \notin HeapEntries'
                      /\ ~dict_has(beam'.state_dict, states[m].hash_tuple)
                /\ dict_has(beam'.state_dict, states[pending].hash_tuple)
                /\ dict_get(beam'.state_dict, states[pending].hash_tuple) = pending
                /\ HashedBeam_len(beam') = beam.beam_size
           ELSE /\ op'.ret = FALSE /\ op'.raised = ""
                /\ beam' = beam
                /\ states' = states ]_vars

\* a full HashedBeam of two members to which three states of three signatures
\* were offered: the last one has just evicted the worst of the first two
C23_Witness ==
    /\ beam_class = "HashedBeam"
    /\ beam.beam_size = 2
    /\ op.name = "add" /\ op.ret
    /\ Cardinality(Offered) = 3
    /\ op.state \in Members
    /\ \A a, b \in Offered : a # b => states[a].hash_tuple # states[b].hash_tuple
    /\ \E m \in NonMembers :
          /\ states[m].valid
          /\ m \notin HeapEntries
          /\ \A x \in Members : states[m].log_prob <= states[x].log_prob
          /\ states[m].log_prob < states[op.state].log_prob

\* the positions of the heap list that hold a valid state
ValidHeapPositions == {k \in DOMAIN beam.beam : states[beam.beam[k]].valid}

\* C28: after any sequence of add calls on a HashedBeam, the states in the
\* underlying heap with valid = True are exactly the values of the signature map,
\* each stored under its own signature, so that len(beam) equals the number of
\* valid heap entries and iteration never yields an invalidated or evicted state.
C28_ValidEntriesAreDictValues ==
    beam_class = "HashedBeam" =>
        /\ {beam.beam[k] : k \in ValidHeapPositions}
              = {beam.state_dict[i][2] : i \in DOMAIN beam.state_dict}
        /\ \A i \in DOMAIN beam.state_dict :
              beam.state_dict[i][1] = get_hash(states, beam.state_dict[i][2])
        /\ \A i, j \in DOMAIN beam.state_dict :
              beam.state_dict[i][1] = beam.state_dict[j][1] => i = j
        /\ HashedBeam_len(beam) = Cardinality(ValidHeapPositions)
        /\ \A m \in Members : states[m].valid /\ m \in HeapEntries

\* a HashedBeam of two members whose heap still holds an invalidated entry, and
\* from which a state was evicted: neither is a member
C28_Witness ==
    /\ beam_class = "HashedBeam"
    /\ op.name = "add" /\ op.ret
    /\ HashedBeam_len(beam) = 2
    /\ Len(beam.beam) > Cardinality(ValidHeapPositions)
    /\ \E s \in NonMembers :
          /\ states[s].valid
          /\ s \notin HeapEntries
          /\ \A m \in Members : states[m].hash_tuple # states[s].hash_tuple
          /\ \A m \in Members : states[s].log_prob < states[m].log_prob

----------------------------------------------------------------------------
(* A client that offers one beam states of pairwise distinct log_prob, as   *)
(* the sums of float log-probabilities of distinct paths generally are.     *)

\* as many distinct log-probabilities as states can be offered
DistinctLogProbs == {0 - k : k \in 0..(MaxAdds - 1)}

\* new_state = state.chord_transition(chord_id, range_end, log_prob), with a
\* log_prob no state created before has
NewDistinctState ==
    /\ pending = 0
    /\ Len(states) <= MaxAdds
    /\ \E chord \in Chords, log_prob \in DistinctLogProbs :
          /\ \A s \in DOMAIN states : s # 1 => states[s].log_prob # log_prob
          /\ states' = Append(states, chord_transition(states, 1, chord, 1, log_prob))
    /\ pending' = Len(states) + 1
    /\ op' = Call("State", Len(states) + 1, FALSE, "")
    /\ UNCHANGED <<beam, beam_class>>

NextOffers ==
    \/ NewDistinctState /\ UNCHANGED <<rangeVars, searchVars, first_call>>
    \/ Add /\ UNCHANGED <<rangeVars, searchVars, first_call>>

SpecOffers == InitBeam /\ [][NextOffers]_vars

\* the k highest-scoring states of a set
TopK(S, k) ==
    {s \in S : Cardinality({t \in S : states[t].log_prob > states[s].log_prob}) < k}

\* the offered states that are the best of their signature
PerSignatureBest ==
    {s \in Offered :
        \A t \in Offered :
            states[t].hash_tuple = states[s].hash_tuple
                => states[t].log_prob <= states[s].log_prob}

\* C29: when all offered states have pairwise distinct log_prob, after any
\* sequence of add calls the members of a plain Beam of capacity k are exactly
\* the k highest-scoring states offered so far (all of them if fewer than k), and
\* the members of a HashedBeam are exactly the k highest-scoring among the
\* per-signature best of all states offered so far.
C29_MembersAreTopK ==
    (\A a, b \in Offered : a # b => states[a].log_prob # states[b].log_prob) =>
        /\ beam_class = "Beam" => Members = TopK(Offered, beam.beam_size)
        /\ beam_class = "HashedBeam" => Members = TopK(PerSignatureBest, beam.beam_size)

\* four states were offered to a HashedBeam of capacity 2: one was replaced by a
\* better state of its signature, another was evicted or refused for want of
\* room, and the beam is full
C29_Witness ==
    /\ beam_class = "HashedBeam"
    /\ beam.beam_size = 2
    /\ pending = 0
    /\ Cardinality(Offered) = 4
    /\ Cardinality(Members) = 2
    /\ \E s \in NonMembers : ~states[s].valid
    /\ \E s \in NonMembers :
          /\ states[s].valid
          /\ s \in PerSignatureBest
          /\ \A m \in Members : states[s].log_prob < states[m].log_prob

----------------------------------------------------------------------------
(* HarmonicInferenceModel.get_chord_ranges (lines 587-689).                 *)
(* Arrays are functions on 0..n-1.  Probabilities are in hundredths, and a  *)
(* log-probability is kept as the sequence of the terms that were summed.   *)

\* change probabilities the chord transition model may output
Probs == {10, 50, 90}
\* (min_change_prob, max_no_change_prob): the defaults of __init__ (438-439), and
\* a model with both equal; __init__ asserts min_change_prob <= max_no_change_prob
ThresholdPairs == {<<25, 75>>, <<50, 50>>}

\* len(array)
alen(a) == Cardinality(DOMAIN a)

RECURSIVE SumTo(_, _)
SumTo(f, i) == IF i <= 0 THEN 0 ELSE f[i] + SumTo(f, i - 1)

\* the duration cache of a piece: the distance from each input's onset to the
\* next input's onset, and the last input's own duration
DurationCacheOf(ons, last_duration) ==
    [i \in DOMAIN ons |->
        IF i + 1 \in DOMAIN ons THEN ons[i + 1] - ons[i] ELSE last_duration]

\* np.max(a[lo:hi])
np_max(a, lo, hi) == CHOOSE m \in {a[i] : i \in lo..(hi - 1)} :
                        \A i \in lo..(hi - 1) : a[i] <= m

\* np.log(p), np.log(1 - p)
Log(p) == <<"log", p>>
Log1m(p) == <<"log", 100 - p>>

\* lines 616-628: the loop over enumerate(zip(inputs[:-1], inputs[1:]), start=1)
RECURSIVE mask_loop(_, _, _, _, _)
mask_loop(ons, i, first, inv, cp) ==
    IF i > alen(ons) - 1 THEN [invalid |-> inv, change_probs |-> cp]
    ELSE IF ons[i - 1] = ons[i]
    THEN mask_loop(ons, i + 1, first, [inv EXCEPT ![i] = TRUE], cp)
    ELSE mask_loop(ons, i + 1, i, inv,
                   IF first # i - 1
                   THEN [cp EXCEPT ![first] = np_max(cp, first, i)]
                   ELSE cp)

\* mutant of mask_onsets: no frame is masked
mask_onsets_none(ons, cp) ==
    [invalid |-> [i \in DOMAIN cp |-> FALSE], change_probs |-> cp]

mask_onsets(ons, cp) ==
    mask_loop(ons, 1, 0, [i \in DOMAIN cp |-> FALSE], cp)

\* heapq compares the ints of `starts` themselves
int_key == [i \in 0..(MaxFrames + 1) |-> i]

\* mutant of push_start: the index is pushed whether or not it is in_starts
push_start_always(sts, ins, i) ==
    [starts |-> heappush(int_key, sts, i), in_starts |-> [ins EXCEPT ![i] = TRUE]]

\* lines 672-674
push_start(sts, ins, i) ==
    IF ~ins[i]
    THEN [starts |-> heappush(int_key, sts, i), in_starts |-> [ins EXCEPT ![i] = TRUE]]
    ELSE [starts |-> sts, in_starts |-> ins]

beamIdle ==
    /\ states = <<>>
    /\ beam = Beam_init(0)
    /\ beam_class = "none"
    /\ pending = 0
    /\ op = Call("idle", 0, FALSE, "")

\* a piece of n inputs with non-decreasing onsets, its duration cache, the
\* change probabilities and the model's parameters
InitRanges ==
    /\ pc = "mask"
    /\ \E n \in 1..MaxFrames :
          /\ \E steps \in [1..(n - 1) -> {0, 1}] :
                onsets = [i \in 0..(n - 1) |-> SumTo(steps, i)]
          /\ change_probs \in [0..(n - 1) -> Probs]
    /\ duration_cache = DurationCacheOf(onsets, 1)
    /\ \E t \in ThresholdPairs : min_change_prob = t[1] /\ max_no_change_prob = t[2]
    /\ max_chord_length \in 1..MaxChordLength
    /\ invalid = <<>>
    /\ starts = <<>>
    /\ in_starts = <<>>
    /\ start = 0
    /\ index = 0
    /\ running_log_prob = <<>>
    /\ running_duration = 0
    /\ reached_end = FALSE
    /\ chord_ranges = <<>>
    /\ chord_log_probs = <<>>
    /\ beamIdle
    /\ searchIdle
    /\ first_call = <<>>

inputsUnchanged ==
    UNCHANGED <<onsets, duration_cache, min_change_prob, max_no_change_prob,
                max_chord_length>>

\* mutant of MaskOnsets: the result lists are not re-created by the call
MaskOnsets_keeps_ranges ==
    /\ pc = "mask"
    /\ LET m == mask_onsets(onsets, change_probs)
       IN  /\ invalid' = m.invalid
           /\ change_probs' = m.change_probs
    /\ starts' = <<0>>
    /\ in_starts' = [i \in DOMAIN change_probs |-> i = 0]
    /\ pc' = "while"
    /\ UNCHANGED <<start, index, running_log_prob, running_duration, reached_end,
                   chord_ranges, chord_log_probs>>
    /\ inputsUnchanged

\* lines 612-640
MaskOnsets ==
    /\ pc = "mask"
    /\ LET m == mask_onsets(onsets, change_probs)
       IN  /\ invalid' = m.invalid
           /\ change_probs' = m.change_probs
    /\ chord_ranges' = <<>>
    /\ chord_log_probs' = <<>>
    /\ starts' = <<0>>
    /\ in_starts' = [i \in DOMAIN change_probs |-> i = 0]
    /\ pc' = "while"
    /\ UNCHANGED <<start, index, running_log_prob, running_duration, reached_end>>
    /\ inputsUnchanged

\* lines 642-647: the while test succeeds, a start is popped
PopStart ==
    /\ pc = "while"
    /\ starts # <<>>
    /\ LET popped == heappop(int_key, starts)
       IN  /\ start' = popped.item
           /\ starts' = popped.heap
           /\ index' = popped.item + 1
    /\ running_log_prob' = <<>>
    /\ running_duration' = 0
    /\ reached_end' = TRUE
    /\ pc' = "for"
    /\ UNCHANGED <<change_probs, invalid, in_starts, chord_ranges, chord_log_probs>>
    /\ inputsUnchanged

\* the for loop has an item: zip stops with change_probs[start + 1:]
InLoop == pc = "for" /\ index <= alen(change_probs) - 1

\* lines 659-660
ForSkipInvalid ==
    /\ InLoop
    /\ invalid[index]
    /\ index' = index + 1
    /\ UNCHANGED <<pc, change_probs, invalid, starts, in_starts, start,
                   running_log_prob, running_duration, reached_end,
                   chord_ranges, chord_log_probs>>
    /\ inputsUnchanged

\* lines 662-665
ForTooLong ==
    /\ InLoop
    /\ ~invalid[index]
    /\ running_duration' = running_duration + duration_cache[index - 1]
    /\ running_duration' > max_chord_length
    /\ reached_end' = FALSE
    /\ pc' = "end"
    /\ UNCHANGED <<change_probs, invalid, starts, in_starts, start, index,
                   running_log_prob, chord_ranges, chord_log_probs>>
    /\ inputsUnchanged

\* lines 667-674: the range (start, index) is emitted and index becomes a start
EmitRange ==
    /\ chord_ranges' = Append(chord_ranges, <<start, index>>)
    /\ chord_log_probs' = Append(chord_log_probs,
                                 Append(running_log_prob, Log(change_probs[index])))
    /\ LET pushed == push_start(starts, in_starts, index)
       IN  /\ starts' = pushed.starts
           /\ in_starts' = pushed.in_starts

\* lines 662-682 with min_change_prob < change_prob <= max_no_change_prob
ForCanChange ==
    /\ InLoop
    /\ ~invalid[index]
    /\ running_duration' = running_duration + duration_cache[index - 1]
    /\ ~(running_duration' > max_chord_length)
    /\ change_probs[index] > min_change_prob
    /\ ~(change_probs[index] > max_no_change_prob)
    /\ EmitRange
    /\ running_log_prob' = Append(running_log_prob, Log1m(change_probs[index]))
    /\ index' = index + 1
    /\ UNCHANGED <<pc, change_probs, invalid, start, reached_end>>
    /\ inputsUnchanged

\* mutant of ForMustChange: the sweep goes on past a frame that must change
ForMustChange_no_break ==
    /\ InLoop
    /\ ~invalid[index]
    /\ running_duration' = running_duration + duration_cache[index - 1]
    /\ ~(running_duration' > max_chord_length)
    /\ change_probs[index] > min_change_prob
    /\ change_probs[index] > max_no_change_prob
    /\ EmitRange
    /\ running_log_prob' = Append(running_log_prob, Log1m(change_probs[index]))
    /\ index' = index + 1
    /\ UNCHANGED <<pc, change_probs, invalid, start, reached_end>>
    /\ inputsUnchanged

\* lines 662-679 with change_prob > max_no_change_prob
ForMustChange ==
    /\ InLoop
    /\ ~invalid[index]
    /\ running_duration' = running_duration + duration_cache[index - 1]
    /\ ~(running_duration' > max_chord_length)
    /\ change_probs[index] > min_change_prob
    /\ change_probs[index] > max_no_change_prob
    /\ EmitRange
    /\ reached_end' = FALSE
    /\ pc' = "end"
    /\ UNCHANGED <<change_probs, invalid, start, index, running_log_prob>>
    /\ inputsUnchanged

\* lines 662-667, 681-682 with change_prob <= min_change_prob
ForNoChange ==
    /\ InLoop
    /\ ~invalid[index]
    /\ running_duration' = running_duration + duration_cache[index - 1]
    /\ ~(running_duration' > max_chord_length)
    /\ ~(change_probs[index] > min_change_prob)
    /\ running_log_prob' = Append(running_log_prob, Log1m(change_probs[index]))
    /\ index' = index + 1
    /\ UNCHANGED <<pc, change_probs, invalid, starts, in_starts, start, reached_end,
                   chord_ranges, chord_log_probs>>
    /\ inputsUnchanged

\* lines 684-687, after a break or when the for loop is exhausted
EndSweep ==
    /\ pc = "end" \/ (pc = "for" /\ ~InLoop)
    /\ IF reached_end
       THEN /\ chord_ranges' = Append(chord_ranges, <<start, alen(change_probs)>>)
            /\ chord_log_probs' = Append(chord_log_probs, running_log_prob)
       ELSE UNCHANGED <<chord_ranges, chord_log_probs>>
    /\ pc' = "while"
    /\ UNCHANGED <<change_probs, invalid, starts, in_starts, start, index,
                   running_log_prob, running_duration, reached_end>>
    /\ inputsUnchanged

\* line 689: the while test fails
Return ==
    /\ pc = "while"
    /\ starts = <<>>
    /\ pc' = "done"
    /\ UNCHANGED <<change_probs, invalid, starts, in_starts, start, index,
                   running_log_prob, running_duration, reached_end,
                   chord_ranges, chord_log_probs>>
    /\ inputsUnchanged

NextRanges ==
    \/ MaskOnsets /\ UNCHANGED <<beamVars, searchVars, first_call>>
    \/ PopStart /\ UNCHANGED <<beamVars, searchVars, first_call>>
    \/ ForSkipInvalid /\ UNCHANGED <<beamVars, searchVars, first_call>>
    \/ ForTooLong /\ UNCHANGED <<beamVars, searchVars, first_call>>
    \/ ForCanChange /\ UNCHANGED <<beamVars, searchVars, first_call>>
    \/ ForMustChange /\ UNCHANGED <<beamVars, searchVars, first_call>>
    \/ ForNoChange /\ UNCHANGED <<beamVars, searchVars, first_call>>
    \/ EndSweep /\ UNCHANGED <<beamVars, searchVars, first_call>>
    \/ Return /\ UNCHANGED <<beamVars, searchVars, first_call>>

SpecRanges == InitRanges /\ [][NextRanges]_vars

----------------------------------------------------------------------------
(* Properties of get_chord_ranges, checked under SpecRanges *)

\* the timeline length, len(change_probs)
NumInputs == alen(onsets)

\* a frame that does not share its onset with its predecessor
Splittable(i) == i \in 1..(NumInputs - 1) /\ onsets[i - 1] # onsets[i]

\* the sum of the duration-to-next values of frames s..e-1
RECURSIVE TotalDuration(_, _)
TotalDuration(s, e) ==
    IF e <= s THEN 0 ELSE duration_cache[e - 1] + TotalDuration(s, e - 1)

RangeSet == {chord_ranges[k] : k \in DOMAIN chord_ranges}

\* C7: for every change-probability curve, onset pattern and max_chord_length,
\* every range (start, end) emitted by get_chord_ranges satisfies end > start,
\* start is 0 or a splittable frame (not sharing its onset with its predecessor),
\* and end is the timeline length or a splittable frame.
C7_RangesAreWellFormed ==
    \A k \in DOMAIN chord_ranges :
        LET s == chord_ranges[k][1]
            e == chord_ranges[k][2]
        IN  /\ e > s
            /\ s = 0 \/ Splittable(s)
            /\ e = NumInputs \/ Splittable(e)

\* the call returned a range that starts after frame 0, ends before the end of the
\* timeline and spans a masked (same-onset) frame
C7_Witness ==
    /\ pc = "done"
    /\ \E k \in DOMAIN chord_ranges :
          LET s == chord_ranges[k][1]
              e == chord_ranges[k][2]
          IN  /\ s > 0 /\ e < NumInputs
              /\ \E i \in (s + 1)..(e - 1) : invalid[i]

\* C8: every range (start, end) emitted by get_chord_ranges, including the final
\* range (start, n) that runs to the end of the timeline, has total duration (sum
\* of the duration-to-next values of frames start..end-1) at most max_chord_length.
C8_RangesWithinMaxChordLength ==
    \A k \in DOMAIN chord_ranges :
        TotalDuration(chord_ranges[k][1], chord_ranges[k][2]) <= max_chord_length

\* C9: for any input, the list of ranges returned by one call of get_chord_ranges
\* contains no (start, end) pair more than once (each start index is swept
\* exactly once).
C9_NoRangeTwice ==
    /\ \A j, k \in DOMAIN chord_ranges : j # k => chord_ranges[j] # chord_ranges[k]
    /\ \A j, k \in DOMAIN starts : j # k => starts[j] # starts[k]
    /\ \A j \in DOMAIN starts : in_starts[starts[j]]
    /\ pc \in {"for", "end"} => in_starts[start] /\ \A j \in DOMAIN starts : starts[j] # start

\* the call returned two ranges that end at the same frame, which was queued as a
\* start by the first and met again by the second
C9_Witness ==
    /\ pc = "done"
    /\ \E j, k \in DOMAIN chord_ranges :
          /\ chord_ranges[j][1] # chord_ranges[k][1]
          /\ chord_ranges[j][2] = chord_ranges[k][2]
          /\ chord_ranges[j][2] < NumInputs

\* the ends the claim allows for a range that starts at s
ReferenceEnds(s) ==
    {e \in (s + 1)..NumInputs :
        /\ e = NumInputs \/ (Splittable(e) /\ change_probs[e] > min_change_prob)
        /\ \A j \in (s + 1)..(e - 1) :
              Splittable(j) => ~(change_probs[j] > max_no_change_prob)
        /\ TotalDuration(s, e) <= max_chord_length}

\* the reachable starts: 0, and the end < n of a range from a reachable start
RECURSIVE ReferenceStarts(_)
ReferenceStarts(known) ==
    LET more == known \cup {e \in 1..(NumInputs - 1) :
                               \E s \in known : e \in ReferenceEnds(s)}
    IN  IF more = known THEN known ELSE ReferenceStarts(more)

ReferenceRanges ==
    {<<s, e>> : s \in ReferenceStarts({0}), e \in 0..NumInputs} \cap
    {r \in (0..NumInputs) \X (0..NumInputs) : r[2] \in ReferenceEnds(r[1])}

\* C10: the set of ranges returned by get_chord_ranges equals the reference set:
\* (s, e) is emitted iff s is a reachable start (0, or the end < n of an emitted
\* range), e > s is a splittable frame with change_probs[e] > min_change_prob or
\* e = n, no splittable frame strictly between s and e has change probability
\* > max_no_change_prob, and the running duration from s up to e does not exceed
\* max_chord_length.
C10_RangesEqualReference ==
    pc = "done" => RangeSet = ReferenceRanges

----------------------------------------------------------------------------
(* get_chord_ranges called twice by one caller on the same piece and the    *)
(* same change_probs array; the inputs are those of SpecRanges and the      *)
(* five-frame piece below.                                                  *)

\* five frames with pairwise distinct onsets
ScenarioOnsets == [i \in 0..4 |-> i]

\* change_probs = [0.0, 0.9, 0.1, 0.95, 0.0], in hundredths
ScenarioChangeProbs == (0 :> 0) @@ (1 :> 90) @@ (2 :> 10) @@ (3 :> 95) @@ (4 :> 0)

\* what the caller remembers: the array as it passed it to the first call, and
\* what the first call returned
Caller(passed, returned, ranges, log_probs) ==
    [passed |-> passed, returned |-> returned,
     chord_ranges |-> ranges, chord_log_probs |-> log_probs]

InitRangeCalls ==
    /\ pc = "mask"
    /\ \/ /\ \E n \in 1..MaxFrames :
                /\ \E steps \in [1..(n - 1) -> {0, 1}] :
                      onsets = [i \in 0..(n - 1) |-> SumTo(steps, i)]
                /\ change_probs \in [0..(n - 1) -> Probs]
          /\ duration_cache = DurationCacheOf(onsets, 1)
          /\ \E t \in ThresholdPairs :
                min_change_prob = t[1] /\ max_no_change_prob = t[2]
          /\ max_chord_length \in 1..MaxChordLength
       \/ /\ onsets = ScenarioOnsets
          /\ change_probs = ScenarioChangeProbs
          /\ duration_cache = DurationCacheOf(onsets, 1)
          /\ min_change_prob = 30
          /\ max_no_change_prob = 70
          \* no limit: longer than the whole piece
          /\ max_chord_length = SumTo([i \in 1..alen(onsets) |-> duration_cache[i - 1]],
                                      alen(onsets)) + 1
    /\ invalid = <<>>
    /\ starts = <<>>
    /\ in_starts = <<>>
    /\ start = 0
    /\ index = 0
    /\ running_log_prob = <<>>
    /\ running_duration = 0
    /\ reached_end = FALSE
    /\ chord_ranges = <<>>
    /\ chord_log_probs = <<>>
    /\ beamIdle
    /\ searchIdle
    /\ first_call = Caller(change_probs, FALSE, <<>>, <<>>)

\* the first call has returned; the caller keeps its result and calls
\* get_chord_ranges again with the same piece and the same array
CallAgain ==
    /\ pc = "done"
    /\ ~first_call.returned
    /\ first_call' = Caller(first_call.passed, TRUE, chord_ranges, chord_log_probs)
    /\ pc' = "mask"
    /\ UNCHANGED <<change_probs, invalid, starts, in_starts, start, index,
                   running_log_prob, running_duration, reached_end,
                   chord_ranges, chord_log_probs>>
    /\ inputsUnchanged

NextRangeCalls ==
    \/ MaskOnsets /\ UNCHANGED <<beamVars, searchVars, first_call>>
    \/ PopStart /\ UNCHANGED <<beamVars, searchVars, first_call>>
    \/ ForSkipInvalid /\ UNCHANGED <<beamVars, searchVars, first_call>>
    \/ ForTooLong /\ UNCHANGED <<beamVars, searchVars, first_call>>
    \/ ForCanChange /\ UNCHANGED <<beamVars, searchVars, first_call>>
    \/ ForMustChange /\ UNCHANGED <<beamVars, searchVars, first_call>>
    \/ ForNoChange /\ UNCHANGED <<beamVars, searchVars, first_call>>
    \/ EndSweep /\ UNCHANGED <<beamVars, searchVars, first_call>>
    \/ Return /\ UNCHANGED <<beamVars, searchVars, first_call>>
    \/ CallAgain /\ UNCHANGED <<beamVars, searchVars>>

SpecRangeCalls == InitRangeCalls /\ [][NextRangeCalls]_vars

\* the caller passed the five-frame piece with thresholds 0.3 and 0.7 and no
\* duration limit
IsScenario ==
    /\ onsets = ScenarioOnsets
    /\ first_call.passed = ScenarioChangeProbs
    /\ min_change_prob = 30
    /\ max_no_change_prob = 70
    /\ max_chord_length > TotalDuration(0, NumInputs)

\* C11: for 5 frames with pairwise distinct onsets, min_change_prob 0.3,
\* max_no_change_prob 0.7, change_probs [0.0, 0.9, 0.1, 0.95, 0.0] and no duration
\* limit, get_chord_ranges returns exactly the ranges (0,1), (1,3), (3,5); the
\* sweep from start 0 stops at index 1 and never emits a range ending at 3.
C11_ScenarioRanges ==
    IsScenario =>
        /\ pc = "done" =>
              /\ RangeSet = {<<0, 1>>, <<1, 3>>, <<3, 5>>}
              /\ Len(chord_ranges) = 3
        /\ \A k \in DOMAIN chord_ranges :
              chord_ranges[k][1] = 0 => chord_ranges[k][2] = 1
        /\ (pc \in {"for", "end"} /\ start = 0) => index <= 1

\* the first call on the five-frame piece has returned
C11_Witness ==
    /\ IsScenario
    /\ pc = "done"
    /\ ~first_call.returned
    /\ Len(chord_ranges) = 3

\* C12: a second call of get_chord_ranges with the same piece and the same
\* change_probs array (which the first call may have modified in place) returns
\* the same ranges and the same range log-probabilities as the first call.
C12_SecondCallSameResult ==
    (pc = "done" /\ first_call.returned) =>
        /\ chord_ranges = first_call.chord_ranges
        /\ chord_log_probs = first_call.chord_log_probs

\* the second call has returned, the first call had overwritten an entry of the
\* array with the maximum of its same-onset group, and a range starts at that entry
C12_Witness ==
    /\ pc = "done"
    /\ first_call.returned
    /\ \E i \in DOMAIN change_probs :
          /\ change_probs[i] # first_call.passed[i]
          /\ \E k \in DOMAIN chord_ranges : chord_ranges[k][2] = i

\* frames a..b are a maximal run of consecutive frames sharing one onset
SameOnsetRun(a, b) ==
    /\ a <= b
    /\ \A i \in a..b : onsets[i] = onsets[a]
    /\ (a - 1 \in DOMAIN onsets => onsets[a - 1] # onsets[a])
    /\ (b + 1 \in DOMAIN onsets => onsets[b + 1] # onsets[b])

\* C24: for every maximal run of consecutive frames sharing one onset, including
\* a run that ends at the last frame of the timeline, get_chord_ranges uses as the
\* change probability of the run's first member the maximum change probability
\* over the whole run (of the array as the caller passed it).
C24_RunMaxAtFirstMember ==
    (pc # "mask" /\ ~first_call.returned) =>
        \A a, b \in DOMAIN onsets :
            SameOnsetRun(a, b) =>
                change_probs[a] = np_max(first_call.passed, a, b + 1)

----------------------------------------------------------------------------
(* State objects under any sequence of chord_transition and key_transition  *)
(* calls, from a root created as beam_search creates it (line 788), in      *)
(* hashed mode (hash_length 0..MaxHashLength) or plain mode (None).         *)

MaxTransitions == 3
\* the largest hash_length a root is created with
MaxHashLength == 2

\* key labels
Keys == {0, 1}

InitState ==
    /\ \E hash_length \in {None} \cup 0..MaxHashLength :
          states = << State(<<>>, None, 0, 0, 0, None, hash_length) >>
    /\ beam = Beam_init(0)
    /\ beam_class = "none"
    /\ pending = 0
    /\ op = Call("State", 1, FALSE, "")
    /\ rangeIdle
    /\ searchIdle
    /\ first_call = <<>>

\* new_state = state.chord_transition(chord, change_index, log_prob)
ChordTransition ==
    /\ Len(states) <= MaxTransitions
    /\ \E self \in DOMAIN states, chord \in Chords, log_prob \in {-1, 0} :
          /\ states' = Append(states,
                              chord_transition(states, self, chord,
                                               states[self].change_index + 1, log_prob))
          /\ op' = Call("chord_transition", Len(states) + 1, FALSE, "")
    /\ UNCHANGED <<beam, beam_class, pending>>

\* if state.can_key_transition(): new_state = state.key_transition(key, log_prob)
KeyTransition ==
    /\ Len(states) <= MaxTransitions
    /\ \E self \in DOMAIN states, key \in Keys, log_prob \in {-1, 0} :
          /\ can_key_transition(states, self)
          /\ LET r == key_transition(states, self, key, log_prob)
             IN  IF r.raised = ""
                 THEN /\ states' = Append(states, r.ret)
                      /\ op' = Call("key_transition", Len(states) + 1, FALSE, "")
                 ELSE /\ states' = states
                      /\ op' = Call("key_transition", self, FALSE, r.raised)
    /\ UNCHANGED <<beam, beam_class, pending>>

NextState ==
    \/ ChordTransition /\ UNCHANGED <<rangeVars, searchVars, first_call>>
    \/ KeyTransition /\ UNCHANGED <<rangeVars, searchVars, first_call>>

SpecState == InitState /\ [][NextState]_vars

\* C16: for every hypothesis h with can_key_transition(h) true, in hashed mode or
\* in plain mode, key_transition returns a new hypothesis without raising, and
\* chord_transition never raises.
C16_TransitionsNeverRaise ==
    op.name \in {"chord_transition", "key_transition"} => op.raised = ""

\* the (key, chord) pairs of the segments along the path from the root to a
\* state, in order (the root itself is no segment)
RECURSIVE PathPairs(_, _)
PathPairs(st, state) ==
    IF st[state].prev_state = None THEN <<>>
    ELSE Append(PathPairs(st, st[state].prev_state),
                <<st[state].key, st[state].chord>>)

\* the last n entries of a sequence, left-padded with None up to n entries
LastPadded(seq, n) ==
    LET padded == Nones(n) \o seq
    IN  SubSeq(padded, Len(padded) - n + 1, Len(padded))

\* C25: for every hash_length N >= 1 and every hypothesis created by any sequence
\* of chord_transition and key_transition calls from the root, the signature
\* (hash_tuple) has length exactly N and equals the (key, chord) pairs of the last
\* N segments along the path in order, left-padded with None when the path has
\* fewer than N segments.
C25_SignatureIsLastPairs ==
    (states[1].has_hash_tuple /\ Len(states[1].hash_tuple) >= 1) =>
        LET N == Len(states[1].hash_tuple)
        IN  \A s \in DOMAIN states :
               /\ states[s].has_hash_tuple
               /\ Len(states[s].hash_tuple) = N
               /\ states[s].hash_tuple = LastPadded(PathPairs(states, s), N)

\* with hash_length 2: a hypothesis of one segment, whose signature is padded,
\* and a hypothesis made by key_transition with a key other than its parent's,
\* whose signature holds its parent's pair and its own
C25_Witness ==
    /\ states[1].has_hash_tuple /\ Len(states[1].hash_tuple) = 2
    /\ \E s \in DOMAIN states :
          /\ states[s].prev_state = 1
          /\ states[s].hash_tuple = <<NoneEntry, <<states[s].key, states[s].chord>> >>
    /\ op.name = "key_transition" /\ op.raised = ""
    /\ LET s == op.state
           p == states[s].prev_state
       IN  /\ states[s].key # states[p].key
           /\ states[s].hash_tuple = << <<states[p].key, states[p].chord>>,
                                        <<states[s].key, states[s].chord>> >>

----------------------------------------------------------------------------
(* HarmonicInferenceModel.__init__ and HarmonicInferenceModel.beam_search.  *)
(* Probabilities are hundredths; a log-probability is ten times the natural *)
(* logarithm, rounded, so that sums of log-probabilities are integers.      *)

MaxBranchingFactor == 2

\* np.log on the probabilities the model uses
LogTable ==
    (1 :> -46) @@ (3 :> -35) @@ (4 :> -32) @@ (10 :> -23) @@ (25 :> -14) @@
    (26 :> -13) @@ (30 :> -12) @@ (35 :> -10) @@ (40 :> -9) @@ (50 :> -7) @@
    (70 :> -4) @@ (96 :> 0)

np_log(p) == LogTable[p]

np_exp(x) == CHOOSE p \in DOMAIN LogTable : LogTable[p] = x

\* the outputs of the chord classifier for one range: a probability for every
\* chord, pairwise distinct; the last one leaves a tenth of the mass unassigned
PriorVectors ==
    { (0 :> 96) @@ (1 :> 3) @@ (2 :> 1),
      (0 :> 26) @@ (1 :> 70) @@ (2 :> 4),
      (0 :> 25) @@ (1 :> 35) @@ (2 :> 40),
      (0 :> 50) @@ (1 :> 10) @@ (2 :> 30) }

\* get_chord_classifications: np.log(classifications)
LogPriorVectors == {[c \in Chords |-> np_log(v[c])] : v \in PriorVectors}

\* the log-probabilities of a range
RangeLogProbs == {-5, 0}

TargetBranchProbs == {50, 95}

\* the ranges a piece of two inputs can have, in the order get_chord_ranges
\* emits them
SearchRanges == << <<0, 1>>, <<0, 2>>, <<1, 2>> >>

\* np.argsort(-priors): position j holds the chord with j larger priors before it
np_argsort_desc(priors) ==
    [j \in 1..Cardinality(DOMAIN priors) |->
        CHOOSE c \in DOMAIN priors :
            Cardinality({d \in DOMAIN priors :
                            \/ priors[d] > priors[c]
                            \/ (priors[d] = priors[c] /\ d < c)}) = j - 1]

\* np.take_along_axis(priors, priors_argsort, -1)
np_take_along_axis(priors, argsort) == [j \in DOMAIN argsort |-> priors[argsort[j]]]

np_cumsum(a) == [j \in DOMAIN a |-> SumTo(a, j)]

\* mutant of np_argmax: the index of the last True
np_argmax_last(flags) ==
    IF \E j \in DOMAIN flags : flags[j]
    THEN (CHOOSE j \in DOMAIN flags :
              flags[j] /\ \A k \in DOMAIN flags : flags[k] => k <= j) - 1
    ELSE 0

\* np.argmax of a boolean array: the (0-based) index of the first True, 0 when
\* there is none
np_argmax(flags) ==
    IF \E j \in DOMAIN flags : flags[j]
    THEN (CHOOSE j \in DOMAIN flags :
              flags[j] /\ \A k \in DOMAIN flags : flags[k] => j <= k) - 1
    ELSE 0

int_min(a, b) == IF a <= b THEN a ELSE b

int_max(a, b) == IF a >= b THEN a ELSE b

\* np.clip(a, a_min, a_max) = minimum(a_max, maximum(a, a_min))
np_clip(a, a_min, a_max) == int_min(a_max, int_max(a, a_min))

\* lines 755-768 for one range
max_index_of(log_prior, target_branch_prob, max_branching_factor) ==
    LET priors == [c \in DOMAIN log_prior |-> np_exp(log_prior[c])]
        taken == np_take_along_axis(priors, np_argsort_desc(priors))
        cumsum == np_cumsum(taken)
        reached == [j \in DOMAIN cumsum |-> cumsum[j] >= target_branch_prob]
    IN  np_clip(np_argmax(reached) + 1, 1, max_branching_factor)

\* seq[:k]
py_slice_to(seq, k) ==
    IF k >= 0 THEN SubSeq(seq, 1, int_min(k, Len(seq)))
    ELSE SubSeq(seq, 1, int_max(Len(seq) + k, 0))

\* defaultdict(list).__getitem__: the value read (a missing key reads as [])
defaultdict_get(d, k) == IF dict_has(d, k) THEN dict_get(d, k) ELSE <<>>

\* defaultdict(list).__getitem__: the dict after the read (a missing key is added)
defaultdict_touch(d, k) == IF dict_has(d, k) THEN d ELSE dict_set(d, k, <<>>)

\* the tuple appended at lines 776-784
RangeData(range_end, range_log_prob, log_prior, prior_argsort, max_index) ==
    [range_end |-> range_end,
     range_log_prob |-> range_log_prob,
     chord_log_priors |-> log_prior,
     chord_priors_argsort |-> prior_argsort,
     max_index |-> max_index]

\* lines 753-784: the zip loop over the first i ranges
RECURSIVE build_chord_ranges_dict(_, _, _, _, _, _)
build_chord_ranges_dict(ranges, log_probs, classifications, target, factor, i) ==
    IF i = 0 THEN <<>>
    ELSE LET d == build_chord_ranges_dict(ranges, log_probs, classifications,
                                          target, factor, i - 1)
             priors == [c \in DOMAIN classifications[i] |->
                           np_exp(classifications[i][c])]
             data == RangeData(ranges[i][2], log_probs[i], classifications[i],
                               np_argsort_desc(priors),
                               max_index_of(classifications[i], target, factor))
             touched == defaultdict_touch(d, ranges[i][1])
         IN  dict_set(touched, ranges[i][1],
                      Append(dict_get(touched, ranges[i][1]), data))

\* mutant of empty: the beam is left as it is
empty_nothing(cls, b) == b

\* Beam.empty
Beam_empty(b) == [b EXCEPT !.beam = <<>>]

\* HashedBeam.empty (state_dict becomes an empty list)
HashedBeam_empty(b) == [b EXCEPT !.beam = <<>>, !.state_dict = <<>>]

empty(cls, b) == IF cls = "HashedBeam" THEN HashedBeam_empty(b) ELSE Beam_empty(b)

\* itertools.product(current_states, range_list)
product(state_list, range_list) ==
    [k \in 1..(Len(state_list) * Len(range_list)) |->
        << state_list[((k - 1) \div Len(range_list)) + 1],
           range_list[((k - 1) % Len(range_list)) + 1] >>]

\* the state of a search: the pool, the list of beams and the exception raised
Search(st, beams, raised) == [st |-> st, all_states |-> beams, raised |-> raised]

\* mutant of widen_max_index: a state whose only branch is its own chord is
\* not given a second one
widen_max_index_never(max_index, chord_priors_argsort, chord) == max_index

\* lines 810-812: ensure each state branches at least once
widen_max_index(max_index, chord_priors_argsort, chord) ==
    IF max_index = 1 /\ chord_priors_argsort[1] = chord THEN 2 ELSE max_index

\* mutant of is_self_transition: no label is skipped
is_self_transition_never(chord_id, chord) == FALSE

\* line 815: if chord_id == state.chord (disallow self-transitions)
is_self_transition(chord_id, chord) == chord_id = chord

\* lines 814-830: the branch loop over chord_ids, from the i-th on
RECURSIVE branch_loop(_, _, _, _, _, _)
branch_loop(cls, S, state, range_data, chord_ids, i) ==
    IF i > Len(chord_ids) \/ S.raised # "" THEN S
    ELSE LET chord_id == chord_ids[i]
             range_end == range_data.range_end
         IN  IF is_self_transition(chord_id, S.st[state].chord)
             THEN branch_loop(cls, S, state, range_data, chord_ids, i + 1)
             ELSE LET new_state == Len(S.st) + 1
                      st1 == Append(S.st,
                                    chord_transition(S.st, state, chord_id, range_end,
                                        range_data.range_log_prob
                                        + range_data.chord_log_priors[chord_id]))
                      fits == fits_in_beam(cls, st1, S.all_states[range_end + 1],
                                           new_state)
                      added == add(cls, fits.st, fits.b, new_state)
                      after == IF fits.raised # "" \/ ~fits.ret THEN fits ELSE added
                  IN  branch_loop(cls,
                                  Search(after.st,
                                         [S.all_states EXCEPT ![range_end + 1] = after.b],
                                         after.raised),
                                  state, range_data, chord_ids, i + 1)

\* lines 810-830 for one (state, range_data) pair that passed the pre-check
branch(cls, S, state, range_data) ==
    LET max_index == widen_max_index(range_data.max_index,
                                     range_data.chord_priors_argsort,
                                     S.st[state].chord)
    IN  branch_loop(cls, S, state, range_data,
                    py_slice_to(range_data.chord_priors_argsort, max_index), 1)

\* lines 806-807: next_beam.fits_in_beam(state)
pre_check(cls, S, state, range_data) ==
    fits_in_beam(cls, S.st, S.all_states[range_data.range_end + 1], state)

\* lines 795-830: the body of the inner loop for one (state, range_data) pair
expand_pair(cls, S, state, range_data) ==
    LET pre == pre_check(cls, S, state, range_data)
        after_pre == Search(pre.st,
                            [S.all_states EXCEPT ![range_data.range_end + 1] = pre.b],
                            pre.raised)
    IN  IF pre.raised # "" \/ ~pre.ret THEN after_pre
        ELSE branch(cls, after_pre, state, range_data)

\* the arguments of __init__ and the attributes it sets
Model(min_prob, max_prob, beam_size, max_branching_factor, target_branch_prob, hash_length, constructed, raised) ==
    [min_change_prob |-> min_prob,
     max_no_change_prob |-> max_prob,
     beam_size |-> beam_size,
     max_branching_factor |-> max_branching_factor,
     target_branch_prob |-> target_branch_prob,
     hash_length |-> hash_length,
     constructed |-> constructed,
     raised |-> raised]

\* mutant of init_thresholds_ok: equal thresholds are rejected
init_thresholds_ok_strict(min, max) == min < max

\* the condition asserted at lines 510-513
init_thresholds_ok(min, max) == min <= max

\* the threshold arguments tried: the defaults, equal ones and inverted ones
ThresholdArgs == {<<25, 75>>, <<50, 50>>, <<75, 25>>, <<75, 50>>}

\* the number of inputs of the piece beam_search is given
SearchInputs == SearchRanges[Len(SearchRanges)][2]

\* a call HarmonicInferenceModel(models, ...) about to be made, and the piece,
\* ranges, range log-probabilities and chord classifications beam_search will be
\* given.  With the default thresholds and target_branch_prob (lines 438, 439,
\* 443) every other argument varies freely; other thresholds come with one
\* search only, and another target_branch_prob with searches over one range.
InitSearch ==
    /\ pc = "construct"
    /\ \E t \in ThresholdArgs,
          beam_size \in 0..MaxBeamSize,
          max_branching_factor \in 0..MaxBranchingFactor,
          target_branch_prob \in TargetBranchProbs,
          hash_length \in {None} \cup 0..HashLength :
          /\ model = Model(t[1], t[2], beam_size, max_branching_factor,
                           target_branch_prob, hash_length, FALSE, "")
          /\ \E picked \in SUBSET DOMAIN SearchRanges :
                /\ t # <<25, 75>> =>
                      /\ max_branching_factor = 1
                      /\ target_branch_prob = 95
                /\ (t # <<25, 75>> \/ target_branch_prob # 95) =>
                      /\ picked = {2}
                      /\ beam_size = 1
                      /\ hash_length = None
                /\ chord_ranges = SelectSeq(SearchRanges,
                                            LAMBDA r : \E k \in picked : SearchRanges[k] = r)
    /\ chord_log_probs \in [DOMAIN chord_ranges -> RangeLogProbs]
    /\ chord_classifications \in [DOMAIN chord_ranges -> LogPriorVectors]
    /\ (model.min_change_prob # 25 \/ model.max_no_change_prob # 75
          \/ model.target_branch_prob # 95) =>
          \A k \in DOMAIN chord_ranges : chord_log_probs[k] = 0
    /\ onsets = [i \in 0..(SearchInputs - 1) |-> i]
    /\ duration_cache = <<>>
    /\ change_probs = <<>>
    /\ min_change_prob = 0
    /\ max_no_change_prob = 0
    /\ max_chord_length = 0
    /\ invalid = <<>>
    /\ starts = <<>>
    /\ in_starts = <<>>
    /\ start = 0
    /\ index = 0
    /\ running_log_prob = <<>>
    /\ running_duration = 0
    /\ reached_end = FALSE
    /\ states = <<>>
    /\ beam = Beam_init(0)
    /\ beam_class = "none"
    /\ pending = 0
    /\ op = Call("idle", 0, FALSE, "")
    /\ chord_ranges_dict = <<>>
    /\ all_states = <<>>
    /\ current_start = 0
    /\ pairs = <<>>
    /\ first_call = <<>>

searchInputsUnchanged ==
    UNCHANGED <<onsets, chord_ranges, chord_log_probs, chord_classifications,
                duration_cache, change_probs, min_change_prob, max_no_change_prob,
                max_chord_length, invalid, starts, in_starts, start, index,
                running_log_prob, running_duration, reached_end, beam, pending,
                first_call>>

\* HarmonicInferenceModel.__init__, lines 509-522 (the models dict is well-formed)
Construct ==
    /\ pc = "construct"
    /\ IF init_thresholds_ok(model.min_change_prob, model.max_no_change_prob)
       THEN /\ model' = [model EXCEPT !.constructed = TRUE]
            /\ pc' = "setup"
       ELSE /\ model' = [model EXCEPT !.raised = "AssertionError"]
            /\ pc' = "raised"
    /\ UNCHANGED <<states, beam_class, op, chord_ranges_dict, all_states,
                   current_start, pairs>>
    /\ searchInputsUnchanged

\* the product the inner loop of iteration current runs over (line 795), and the
\* dict after it was read
loop_pairs(cls, beams, d, current) ==
    product(iter(cls, beams[current + 1]), defaultdict_get(d, current))

\* lines 753-795: the dict of range data, the beams, the root state, and the
\* first iteration of the outer loop is entered
Setup ==
    /\ pc = "setup"
    /\ LET cls == IF model.hash_length = None THEN "Beam" ELSE "HashedBeam"
           d == build_chord_ranges_dict(chord_ranges, chord_log_probs,
                                        chord_classifications,
                                        model.target_branch_prob,
                                        model.max_branching_factor,
                                        Len(chord_ranges))
           beams == [k \in 1..(alen(onsets) + 1) |-> Beam_init(model.beam_size)]
           root == State(<<>>, None, 0, 0, 0, None, model.hash_length)
           added == add(cls, <<root>>, beams[1], 1)
           beams1 == [beams EXCEPT ![1] = added.b]
       IN  /\ beam_class' = cls
           /\ states' = added.st
           /\ all_states' = beams1
           /\ op' = Call("add", 1, added.ret, added.raised)
           /\ current_start' = 0
           /\ IF added.raised # ""
              THEN /\ pc' = "raised"
                   /\ chord_ranges_dict' = d
                   /\ pairs' = <<>>
              ELSE /\ pc' = "loop"
                   /\ chord_ranges_dict' = defaultdict_touch(d, 0)
                   /\ pairs' = loop_pairs(cls, beams1, d, 0)
    /\ UNCHANGED model
    /\ searchInputsUnchanged

\* the Search record of the current state
Now == Search(states, all_states, "")

\* the inner loop has a pair whose state does not pass the pre-check
\* (lines 806-808)
SkipPair ==
    /\ pc = "loop"
    /\ pairs # <<>>
    /\ LET pre == pre_check(beam_class, Now, pairs[1][1], pairs[1][2])
           S == expand_pair(beam_class, Now, pairs[1][1], pairs[1][2])
       IN  /\ pre.raised # "" \/ ~pre.ret
           /\ states' = S.st
           /\ all_states' = S.all_states
           /\ op' = Call("fits_in_beam", pairs[1][1], pre.ret, pre.raised)
           /\ pc' = IF S.raised # "" THEN "raised" ELSE "loop"
    /\ pairs' = Tail(pairs)
    /\ UNCHANGED <<model, beam_class, chord_ranges_dict, current_start>>
    /\ searchInputsUnchanged

\* the inner loop has a pair whose state passes the pre-check and branches
\* (lines 806-830)
BranchPair ==
    /\ pc = "loop"
    /\ pairs # <<>>
    /\ LET pre == pre_check(beam_class, Now, pairs[1][1], pairs[1][2])
           S == expand_pair(beam_class, Now, pairs[1][1], pairs[1][2])
       IN  /\ pre.raised = "" /\ pre.ret
           /\ states' = S.st
           /\ all_states' = S.all_states
           /\ op' = Call("branch", pairs[1][1], pre.ret, S.raised)
           /\ pc' = IF S.raised # "" THEN "raised" ELSE "loop"
    /\ pairs' = Tail(pairs)
    /\ UNCHANGED <<model, beam_class, chord_ranges_dict, current_start>>
    /\ searchInputsUnchanged

\* the inner loop is exhausted: current_states.empty() (line 832), and the outer
\* loop enters its next iteration or ends
EmptyCurrent ==
    /\ pc = "loop"
    /\ pairs = <<>>
    /\ LET beams == [all_states EXCEPT
                        ![current_start + 1] = empty(beam_class, all_states[current_start + 1])]
       IN  /\ all_states' = beams
           /\ IF current_start + 1 < Len(all_states) - 1
              THEN /\ current_start' = current_start + 1
                   /\ chord_ranges_dict' =
                          defaultdict_touch(chord_ranges_dict, current_start + 1)
                   /\ pairs' = loop_pairs(beam_class, beams, chord_ranges_dict,
                                          current_start + 1)
                   /\ pc' = "loop"
              ELSE /\ pc' = "return"
                   /\ UNCHANGED <<current_start, chord_ranges_dict, pairs>>
    /\ op' = Call("empty", 0, FALSE, "")
    /\ UNCHANGED <<model, states, beam_class>>
    /\ searchInputsUnchanged

\* return all_states[-1].get_top_state() (line 834)
ReturnTop ==
    /\ pc = "return"
    /\ LET r == get_top_state(beam_class, states, all_states[Len(all_states)])
       IN  op' = Call("get_top_state", r.ret, FALSE, r.raised)
    /\ pc' = "done"
    /\ UNCHANGED <<model, states, beam_class, chord_ranges_dict, all_states,
                   current_start, pairs>>
    /\ searchInputsUnchanged

NextSearch ==
    \/ Construct
    \/ Setup
    \/ SkipPair
    \/ BranchPair
    \/ EmptyCurrent
    \/ ReturnTop

SpecSearch == InitSearch /\ [][NextSearch]_vars

----------------------------------------------------------------------------
(* Properties of __init__ and beam_search, checked under SpecSearch *)

\* the beam of the last frame index, all_states[-1]
LastBeam == all_states[Len(all_states)]

\* C13: when the ranges contain no chain from frame 0 to the timeline length, so
\* that the beam at index timeline_length is empty when the sweep ends,
\* beam_search surfaces a distinguished no-solution outcome instead of raising an
\* exception (here for a positive beam_size and max_branching_factor).
C13_NoSolutionIsNotAnException ==
    (/\ pc = "done"
     /\ model.beam_size >= 1
     /\ model.max_branching_factor >= 1
     /\ len(beam_class, LastBeam) = 0)
        => op.raised = ""

\* C14: constructing a HarmonicInferenceModel with min_change_prob >
\* max_no_change_prob is rejected at construction, and with min_change_prob <=
\* max_no_change_prob it is not rejected on that ground.
C14_ThresholdOrderChecked ==
    pc # "construct" =>
        /\ model.raised = "AssertionError"
              <=> model.min_change_prob > model.max_no_change_prob
        /\ model.constructed
              <=> model.min_change_prob <= model.max_no_change_prob

\* a construction with inverted thresholds has been rejected
C14_Witness ==
    /\ pc = "raised"
    /\ model.raised = "AssertionError"
    /\ ~model.constructed
    /\ model.min_change_prob > model.max_no_change_prob

\* C15: constructing a HarmonicInferenceModel with a non-positive beam_size or a
\* non-positive max_branching_factor fails at construction, so that such a value
\* never causes an error or a degenerate result during beam_search.
C15_NonPositiveRejected ==
    /\ (pc # "construct"
        /\ (model.beam_size <= 0 \/ model.max_branching_factor <= 0))
          => ~model.constructed
    /\ pc = "raised" => model.raised # ""

\* the ranges form a single chain 0 = s1 < e1 = s2 < ... < ek = n
IsChain ==
    /\ chord_ranges # <<>>
    /\ chord_ranges[1][1] = 0
    /\ chord_ranges[Len(chord_ranges)][2] = alen(onsets)
    /\ \A k \in 1..(Len(chord_ranges) - 1) :
          chord_ranges[k][2] = chord_ranges[k + 1][1]

\* the labelings of a chain: one chord per range, none equal to its predecessor
Labelings ==
    {l \in [DOMAIN chord_ranges -> Chords] :
        \A k \in 1..(Len(chord_ranges) - 1) : l[k] # l[k + 1]}

\* the total log-probability of a labeling of the first k ranges
RECURSIVE Score(_, _)
Score(l, k) ==
    IF k = 0 THEN 0
    ELSE Score(l, k - 1) + chord_log_probs[k] + chord_classifications[k][l[k]]

BestScore ==
    CHOOSE b \in {Score(l, Len(chord_ranges)) : l \in Labelings} :
        \A l \in Labelings : Score(l, Len(chord_ranges)) <= b

\* the labeling that takes, range after range, the chord of highest prior other
\* than the chord just taken
RECURSIVE Greedy(_)
Greedy(k) ==
    IF k = 0 THEN <<>>
    ELSE LET before == Greedy(k - 1)
             allowed == IF k = 1 THEN Chords ELSE Chords \ {before[k - 1]}
         IN  Append(before,
                    CHOOSE c \in allowed :
                        \A d \in allowed :
                            chord_classifications[k][d] <= chord_classifications[k][c])

\* State.get_chords without the root: the (chord, change_index) pairs from the
\* first transition to this state
RECURSIVE Path(_, _)
Path(st, state) ==
    IF st[state].prev_state = None THEN <<>>
    ELSE Append(Path(st, st[state].prev_state),
                <<st[state].chord, st[state].change_index>>)

\* C17 as claimed: with beam_size = 1 and ranges forming a single chain covering
\* 0..n, beam_search returns the complete labeling with the highest total
\* log-probability among all labelings of that chain in which no chord repeats
\* its predecessor (here for a positive max_branching_factor).
C17_BeamSizeOneIsOptimal ==
    (/\ pc = "done"
     /\ model.beam_size = 1
     /\ model.max_branching_factor >= 1
     /\ IsChain)
        => /\ op.raised = ""
           /\ states[op.state].log_prob = BestScore

\* C17 as amended: with beam_size = 1, a positive max_branching_factor and ranges
\* forming a single chain covering 0..n, beam_search returns the greedy labeling:
\* for each range of the chain in order, the chord of highest prior that differs
\* from the chord chosen for the previous range; its log-probability is the sum
\* of the range and chord log-probabilities along the chain.
C17_BeamSizeOneIsGreedy ==
    (/\ pc = "done"
     /\ model.beam_size = 1
     /\ model.max_branching_factor >= 1
     /\ IsChain)
        => /\ op.raised = ""
           /\ Path(states, op.state) =
                 [k \in DOMAIN chord_ranges |->
                     <<Greedy(Len(chord_ranges))[k], chord_ranges[k][2]>>]
           /\ states[op.state].log_prob =
                 Score(Greedy(Len(chord_ranges)), Len(chord_ranges))

\* a search with beam_size = 1 over a chain of two ranges has returned a labeling
\* that is not the best one
C17_Witness ==
    /\ pc = "done"
    /\ model.beam_size = 1
    /\ model.max_branching_factor >= 1
    /\ IsChain
    /\ Len(chord_ranges) = 2
    /\ op.raised = ""
    /\ states[op.state].log_prob < BestScore

\* a hypothesis, as seen from outside: its labeling, key and log-probability
Hypothesis(st, state) ==
    [path |-> Path(st, state), key |-> st[state].key, log_prob |-> st[state].log_prob]

\* the hypotheses held by a beam
Hypotheses(cls, st, b) ==
    {Hypothesis(st, iter(cls, b)[k]) : k \in DOMAIN iter(cls, b)}

\* the inner loop of one iteration, from the i-th pair on
RECURSIVE sweep(_, _, _, _)
sweep(cls, S, ps, i) ==
    IF i > Len(ps) \/ S.raised # "" THEN S
    ELSE sweep(cls, expand_pair(cls, S, ps[i][1], ps[i][2]), ps, i + 1)

\* the outer loop (lines 790-832) from iteration current on; seen collects the
\* hypotheses each beam holds when its iteration starts
RECURSIVE search_loop(_, _, _, _, _)
search_loop(cls, S, d, current, seen) ==
    IF S.raised # "" \/ current >= Len(S.all_states) - 1
    THEN [S |-> S, seen |-> seen]
    ELSE LET S1 == sweep(cls, S, loop_pairs(cls, S.all_states, d, current), 1)
             emptied == [S1.all_states EXCEPT
                            ![current + 1] = empty(cls, S1.all_states[current + 1])]
         IN  search_loop(cls, Search(S1.st, emptied, S1.raised), d, current + 1,
                         Append(seen, Hypotheses(cls, S.st, S.all_states[current + 1])))

\* beam_search (lines 753-834) run on the current arguments with another
\* hash_length: the hypotheses each beam held when it was expanded, those of the
\* last beam, and the state returned or the exception raised
beam_search(hash_length) ==
    LET cls == IF hash_length = None THEN "Beam" ELSE "HashedBeam"
        beams == [k \in 1..(alen(onsets) + 1) |-> Beam_init(model.beam_size)]
        added == add(cls, << State(<<>>, None, 0, 0, 0, None, hash_length) >>,
                     beams[1], 1)
        run == search_loop(cls,
                           Search(added.st, [beams EXCEPT ![1] = added.b], added.raised),
                           build_chord_ranges_dict(chord_ranges, chord_log_probs,
                                                   chord_classifications,
                                                   model.target_branch_prob,
                                                   model.max_branching_factor,
                                                   Len(chord_ranges)),
                           0, <<>>)
        last == run.S.all_states[Len(run.S.all_states)]
        top == get_top_state(cls, run.S.st, last)
    IN  [seen |-> run.seen,
         last |-> Hypotheses(cls, run.S.st, last),
         raised |-> IF run.S.raised # "" THEN run.S.raised ELSE top.raised,
         top |-> IF run.S.raised = "" /\ top.raised = ""
                 THEN Hypothesis(run.S.st, top.ret) ELSE <<>>]

\* the search in progress has, so far, filled its beams with the same hypotheses
\* and returned the same hypothesis as a search with the given hash_length; a
\* beam is looked at when its iteration starts (it is not written to afterwards)
SameAsSearchWith(hash_length) ==
    LET other == beam_search(hash_length)
    IN  /\ (pc = "loop" /\ op.name \in {"add", "empty"}) =>
              Hypotheses(beam_class, states, all_states[current_start + 1])
                  = other.seen[current_start + 1]
        /\ pc \in {"return", "done"} =>
              Hypotheses(beam_class, states, LastBeam) = other.last
        /\ pc = "done" =>
              /\ op.raised = other.raised
              /\ op.raised = "" => Hypothesis(states, op.state) = other.top

\* C18 as claimed: a beam_search with hash_length = 0 behaves identically to a
\* plain-Beam search (hash_length = None): the same hypotheses are admitted to
\* every beam and the same terminal hypothesis is returned.
C18_HashLengthZeroIsPlain ==
    (/\ model.constructed
     /\ model.hash_length = 0
     /\ model.beam_size >= 1
     /\ model.max_branching_factor >= 1)
        => SameAsSearchWith(None)

\* C18 as amended: a beam_search with hash_length = 0 behaves identically to a
\* HashedBeam search with hash_length = 1 (every hypothesis but the root has the
\* signature made of its last (key, chord) pair): the same hypotheses are held
\* by every beam and the same terminal hypothesis is returned.
C18_HashLengthZeroIsOne ==
    (model.constructed /\ model.hash_length = 0) => SameAsSearchWith(1)

\* a search with hash_length = 0 has returned, and its last beam does not hold
\* the hypotheses a plain-Beam search holds there
C18_Witness ==
    /\ pc = "done"
    /\ model.hash_length = 0
    /\ op.raised = ""
    /\ Hypotheses(beam_class, states, LastBeam) # beam_search(None).last

\* the members of a beam
MemberSet(cls, b) == {iter(cls, b)[k] : k \in DOMAIN iter(cls, b)}

\* C19: the parent pre-check is only an optimization: with every range and chord
\* log-probability <= 0, whenever fits_in_beam(h) on the end beam is False for a
\* surviving hypothesis h, no child of h over that range would have been
\* admitted, for Beam and for HashedBeam alike, so that a search without the
\* pre-check fills every beam with the same members (here for hash_length None
\* or positive).
C19_PreCheckOnlyOptimization ==
    (pc = "loop" /\ pairs # <<>> /\ model.hash_length # 0) =>
        LET state == pairs[1][1]
            range_data == pairs[1][2]
            pre == pre_check(beam_class, Now, state, range_data)
            skipped == expand_pair(beam_class, Now, state, range_data)
            branched == branch(beam_class, skipped, state, range_data)
        IN  (pre.raised = "" /\ ~pre.ret) =>
                MemberSet(beam_class, branched.all_states[range_data.range_end + 1])
                    = MemberSet(beam_class, skipped.all_states[range_data.range_end + 1])

\* the sum of the numbers of a set
RECURSIVE SetSum(_)
SetSum(s) == IF s = {} THEN 0 ELSE LET x == CHOOSE x \in s : TRUE IN x + SetSum(s \ {x})

\* the probability mass of the k chords of highest prior (the priors of a range
\* are pairwise distinct)
PrefixMass(log_prior, k) ==
    LET values == {np_exp(log_prior[c]) : c \in DOMAIN log_prior}
    IN  SetSum({v \in values : Cardinality({w \in values : w > v}) < k})

\* x clamped to the interval [lo, hi]
ClampTo(x, lo, hi) == IF x < lo THEN lo ELSE IF x > hi THEN hi ELSE x

\* the length of the smallest prefix, in descending prior order, whose mass
\* reaches the target (0 when no prefix does)
SmallestPrefix(log_prior, target) ==
    IF \E k \in 1..Cardinality(DOMAIN log_prior) : PrefixMass(log_prior, k) >= target
    THEN CHOOSE k \in 1..Cardinality(DOMAIN log_prior) :
             /\ PrefixMass(log_prior, k) >= target
             /\ \A j \in 1..(k - 1) : PrefixMass(log_prior, j) < target
    ELSE 0

\* the range data tuples beam_search has put in its dict
RangeDataSet ==
    {chord_ranges_dict[i][2][j] : <<i, j>> \in
        {p \in (DOMAIN chord_ranges_dict) \X (1..Len(chord_ranges)) :
            p[2] \in DOMAIN chord_ranges_dict[p[1]][2]}}

\* C20: for every range whose sorted chord priors reach target_branch_prob at
\* some prefix, the branching cutoff equals the length of the smallest prefix, in
\* descending prior order, whose cumulative probability is >= target_branch_prob,
\* clamped to the interval [1, max_branching_factor].
C20_CutoffIsSmallestPrefix ==
    \A range_data \in RangeDataSet :
        LET k == SmallestPrefix(range_data.chord_log_priors, model.target_branch_prob)
        IN  k > 0 => range_data.max_index = ClampTo(k, 1, model.max_branching_factor)

\* the dict holds a range whose priors reach the target with the second chord and
\* whose cutoff is 2, and a range that needs all three chords and is cut at
\* max_branching_factor = 2
C20_Witness ==
    /\ pc = "loop"
    /\ model.max_branching_factor = 2
    /\ \E range_data \in RangeDataSet :
          /\ SmallestPrefix(range_data.chord_log_priors, model.target_branch_prob) = 2
          /\ range_data.max_index = 2
    /\ \E range_data \in RangeDataSet :
          /\ SmallestPrefix(range_data.chord_log_priors, model.target_branch_prob) = 3
          /\ range_data.max_index = 2

\* C21: with at least two labels, for every surviving hypothesis h and every
\* range starting at the current index that passes the pre-check, beam_search
\* constructs at least one child hypothesis and at most max(1, cutoff) children,
\* none of which repeats h's chord; when the cutoff is 1 and the top label equals
\* h's chord, the second-ranked label is the one expanded.
C21_EveryPairBranches ==
    [][ (pc = "loop" /\ pairs # <<>> /\ op'.name = "branch") =>
           LET h == pairs[1][1]
               range_data == pairs[1][2]
               cutoff == range_data.max_index
               children == (Len(states) + 1)..Len(states')
           IN  /\ Cardinality(DOMAIN range_data.chord_log_priors) >= 2
               /\ Cardinality(children) >= 1
               /\ Cardinality(children) <= int_max(1, cutoff)
               /\ \A c \in children :
                     /\ states'[c].prev_state = h
                     /\ states'[c].chord # states[h].chord
               /\ (cutoff = 1 /\ range_data.chord_priors_argsort[1] = states[h].chord)
                     => \A c \in children :
                           states'[c].chord = range_data.chord_priors_argsort[2] ]_vars

\* the states held by a beam: its members and the entries of its heap
Held(cls, b) == MemberSet(cls, b) \cup {b.beam[k] : k \in DOMAIN b.beam}

\* C22: chord_transition is never applied with a new chord equal to the
\* hypothesis's current chord: at every point of beam_search, no hypothesis that
\* was constructed, and so none held in any beam, has the chord of its parent.
C22_NoSelfTransition ==
    /\ \A s \in DOMAIN states :
          states[s].prev_state # None =>
              states[s].chord # states[states[s].prev_state].chord
    /\ \A i \in DOMAIN all_states :
          \A s \in Held(beam_class, all_states[i]) :
              states[s].prev_state # None =>
                  states[s].chord # states[states[s].prev_state].chord

\* a beam holds a child of a hypothesis p with a chord, built over a range among
\* whose labels within the cutoff p's own chord was, and skipped
C22_Witness ==
    /\ pc = "loop"
    /\ \E i \in DOMAIN all_states :
          \E s \in MemberSet(beam_class, all_states[i]) :
             /\ states[s].prev_state # None
             /\ LET p == states[s].prev_state
                    ranges_of_p == defaultdict_get(chord_ranges_dict,
                                                   states[p].change_index)
                IN  /\ states[p].chord # None
                    /\ \E j \in DOMAIN ranges_of_p :
                          /\ ranges_of_p[j].range_end = states[s].change_index
                          /\ \E k \in 1..ranges_of_p[j].max_index :
                                ranges_of_p[j].chord_priors_argsort[k] = states[p].chord

\* a beam is empty: it has no member and its heap list is empty
IsEmpty(cls, b) == len(cls, b) = 0 /\ Held(cls, b) = {}

\* Beam[c] is empty
IsEmptyBeam(c) == IsEmpty(beam_class, all_states[c + 1])

\* the beams already processed are empty
ProcessedBeamsEmpty ==
    /\ pc = "loop" => \A c \in 0..(current_start - 1) : IsEmptyBeam(c)
    /\ pc \in {"return", "done"} => \A c \in 0..(Len(all_states) - 2) : IsEmptyBeam(c)

\* a step of the sweep: the index does not go back and advances by one at most,
\* and no beam of index <= the index being processed gets a new state
SweepStep ==
    pc = "loop" =>
        /\ current_start' \in {current_start, current_start + 1}
        /\ (current_start' = current_start + 1) =>
              (pairs = <<>> /\ IsEmpty(beam_class, all_states'[current_start + 1]))
        /\ \A c \in 0..current_start :
              Held(beam_class, all_states'[c + 1]) \subseteq Held(beam_class, all_states[c + 1])

\* C26: beam_search processes frame indices in strictly increasing order and,
\* while processing index c, inserts only into beams with index > c; hence no
\* hypothesis is inserted into Beam[i] once the sweep has started processing i,
\* and every Beam[c] with c < timeline_length is empty from the end of its
\* processing step until the search returns.
C26_LeftToRightSweep == []ProcessedBeamsEmpty /\ [][SweepStep]_vars

\* a search over two chained ranges has returned a hypothesis of two segments:
\* both beams before the last were filled, processed and emptied
C26_Witness ==
    /\ pc = "done"
    /\ op.raised = ""
    /\ Len(Path(states, op.state)) = 2
    /\ \A c \in 0..(Len(all_states) - 2) : IsEmptyBeam(c)
    /\ ~IsEmptyBeam(Len(all_states) - 1)

\* State.get_chords, second list: the change indexes from the root to a state
RECURSIVE ChangeIndexes(_, _)
ChangeIndexes(st, state) ==
    IF st[state].prev_state = None THEN <<st[state].change_index>>
    ELSE Append(ChangeIndexes(st, st[state].prev_state), st[state].change_index)

\* the ranges beam_search was given
EnumeratedRanges == {chord_ranges[k] : k \in DOMAIN chord_ranges}

\* change indexes 0 = c0 < c1 < ... < cm = i, every step an enumerated range
IsRangeChainTo(changes, i) ==
    /\ changes[1] = 0
    /\ changes[Len(changes)] = i
    /\ \A j \in 1..(Len(changes) - 1) :
          /\ changes[j] < changes[j + 1]
          /\ <<changes[j], changes[j + 1]>> \in EnumeratedRanges

\* C27: at every point of beam_search, every hypothesis held in Beam[i] has
\* change_index = i, and the change indexes along its parent chain are
\* 0 = c0 < c1 < ... < cm = i with every consecutive pair an enumerated range;
\* consequently the chord segments of the returned hypothesis tile
\* [0, timeline_length] without gap or overlap.
C27_BeamIndexIsChangeIndex ==
    /\ \A i \in DOMAIN all_states :
          \A s \in Held(beam_class, all_states[i]) :
             /\ states[s].change_index = i - 1
             /\ IsRangeChainTo(ChangeIndexes(states, s), i - 1)
    /\ (pc = "done" /\ op.raised = "") =>
          /\ IsRangeChainTo(ChangeIndexes(states, op.state), alen(onsets))
          /\ Len(Path(states, op.state)) = Len(ChangeIndexes(states, op.state)) - 1

\* given the ranges (0,1), (0,2) and (1,2), a search has returned a hypothesis
\* of the two segments (0,1) and (1,2)
C27_Witness ==
    /\ pc = "done"
    /\ op.raised = ""
    /\ Len(chord_ranges) = 3
    /\ ChangeIndexes(states, op.state) = <<0, 1, 2>>

\* C30: when no prefix of a range's sorted label priors reaches
\* target_branch_prob (the total prior mass is below the target), the branching
\* cutoff for that range is min(number of labels, max_branching_factor): as many
\* top labels as the hard maximum allows are expanded (here for a positive
\* beam_size and max_branching_factor).
C30_UnreachedTargetUsesMaximum ==
    (model.beam_size >= 1 /\ model.max_branching_factor >= 1) =>
        \A range_data \in RangeDataSet :
            SmallestPrefix(range_data.chord_log_priors, model.target_branch_prob) = 0 =>
                range_data.max_index =
                    int_min(Cardinality(DOMAIN range_data.chord_log_priors),
                            model.max_branching_factor)

====
